---- MODULE Spec2Model ----
(***************************************************************************)
(* A model of the tag codec layer of lofty-rs: the APE tag (item list,     *)
(* accessors, record reader), the ID3v2 frame loop, the FLAC metadata      *)
(* block walk and the extended URL frame.                                  *)
(*                                                                         *)
(* Strings are sequences of character codes (ASCII), byte streams are      *)
(* sequences of bytes, Option<T> is a sequence of length 0 (None) or 1     *)
(* (Some).                                                                 *)
(***************************************************************************)
EXTENDS Integers, Sequences, FiniteSets, TLC

VARIABLES
    items,          \* ApeTag.items of the tag the accessors work on
    lastOp,         \* the accessor operation that produced `items`
    rd_records,     \* read_ape_tag_with_header: the records the stream was written from
    rd_data,        \* the byte stream `data`, from the first item record on
    rd_header,      \* the ApeHeader: size, item_count
    rd_pos,         \* the position of `data`
    rd_remaining,   \* remaining_size
    rd_i,           \* iterations of the item loop done
    rd_tag,         \* tag.items
    rd_result,      \* "running", "Ok" or the error returned
    id3_frames,     \* parse_id3v2: the frames the tag body was written from
    id3_header,     \* the Id3v2Header: size, extended_size, unsynchronisation
    id3_bytes,      \* the input `bytes`, from the first byte behind the header on
    id3_mode,       \* parse_mode
    id3_pos,        \* the position of the frame reader in the (decoded) tag body
    id3_consumed,   \* bytes of the input consumed when parse_id3v2 returns
    id3_tag,        \* the frames of the Id3v2Tag
    id3_result,     \* "frames", "drain", "Ok" or the error returned
    fl_stream,      \* flac::read_from: the input: id3, marker, blocks
    fl_options,     \* parse_options: parsing_mode, read_properties
    fl_pc,          \* where read_from stands: "verify", "blocks", "done"
    fl_read,        \* the number of blocks read from the stream
    fl_last_block,  \* last_block
    fl_file,        \* the FlacFile: id3v2_tag, vorbis_comments_tag, pictures, properties
    fl_result,      \* "running", "Ok" or the error returned
    url_tag,        \* the ExtendedUrlFrames of an Id3v2Tag, in order
    url_a,          \* ExtendedUrlFrame: the left operand; the frame inserted
    url_b,          \* ExtendedUrlFrame: the right operand; the frame replaced
    url_eq,         \* url_a == url_b
    url_hashes,     \* what hash() feeds the Hasher for url_a and for url_b
    url_op,         \* "new", "compare" or "insert"
    cv_op,          \* a conversion: the step done last, "idle" when none runs
    cv_in,          \* the value the conversion is given
    cv_mid,         \* the intermediate form (bytes, native items)
    cv_out          \* the value the conversion gives back

apeTagVars == <<items, lastOp>>
apeReadVars ==
    <<rd_records, rd_data, rd_header, rd_pos, rd_remaining, rd_i, rd_tag, rd_result>>

id3Vars ==
    <<id3_frames, id3_header, id3_bytes, id3_mode, id3_pos, id3_consumed,
      id3_tag, id3_result>>

flacVars ==
    <<fl_stream, fl_options, fl_pc, fl_read, fl_last_block, fl_file, fl_result>>

urlVars == <<url_tag, url_a, url_b, url_eq, url_hashes, url_op>>

convVars == <<cv_op, cv_in, cv_mid, cv_out>>

notApeTagVars == <<apeReadVars, id3Vars, flacVars, urlVars, convVars>>
notApeReadVars == <<apeTagVars, id3Vars, flacVars, urlVars, convVars>>
notId3Vars == <<apeTagVars, apeReadVars, flacVars, urlVars, convVars>>
notFlacVars == <<apeTagVars, apeReadVars, id3Vars, urlVars, convVars>>
notUrlVars == <<apeTagVars, apeReadVars, id3Vars, flacVars, convVars>>
notConvVars == <<apeTagVars, apeReadVars, id3Vars, flacVars, urlVars>>

vars == <<apeTagVars, apeReadVars, id3Vars, flacVars, urlVars, convVars>>

---------------------------------------------------------------------------
(* Bounds of the model *)

\* the setters are called with 0, 7 and BigNum, a number of two digits
BigNum == 25
\* merge_tag is given unified tags of at most MaxMerge items
MaxMerge == 1
\* read_ape_tag_with_header is given streams of at most MaxRecords item records
MaxRecords == 3
\* parse_id3v2 is given tag bodies of at most MaxFrames frames
MaxFrames == 3
\* flac::read_from is given chains of at most MaxBlocks blocks behind STREAMINFO
MaxBlocks == 3
\* the descriptions of ExtendedUrlFrames have at most MaxDescription characters
MaxDescription == 1
\* split_tag is given ApeTags of at most MaxSplit items
MaxSplit == 2
\* tagitems_into_ape is given unified tags of at most MaxUnified items
MaxUnified == 2

Nums == {0, 7, BigNum}

---------------------------------------------------------------------------
(* A component that is not running: what its variables hold meanwhile *)

ApeTagIdle ==
    /\ items = <<>>
    /\ lastOp = "new"

ApeReadIdle ==
    /\ rd_records = <<>>
    /\ rd_data = <<>>
    /\ rd_header = [size |-> 0, item_count |-> 0]
    /\ rd_pos = 0
    /\ rd_remaining = 0
    /\ rd_i = 0
    /\ rd_tag = <<>>
    /\ rd_result = "Ok"

Id3Idle ==
    /\ id3_frames = <<>>
    /\ id3_header = [size |-> 0, extended_size |-> 0, unsynchronisation |-> FALSE]
    /\ id3_bytes = <<>>
    /\ id3_mode = "Strict"
    /\ id3_pos = 0
    /\ id3_consumed = 0
    /\ id3_tag = <<>>
    /\ id3_result = "Ok"

\* FlacFile as read_from creates it
EmptyFlacFile ==
    [id3v2_tag |-> <<>>, vorbis_comments_tag |-> <<>>, pictures |-> <<>>,
     properties |-> "default"]

FlacIdle ==
    /\ fl_stream = [id3 |-> <<>>, marker |-> <<>>, blocks |-> <<>>]
    /\ fl_options = [parsing_mode |-> "Strict", read_properties |-> FALSE]
    /\ fl_pc = "done"
    /\ fl_read = 0
    /\ fl_last_block = TRUE
    /\ fl_file = EmptyFlacFile
    /\ fl_result = "Ok"

\* ExtendedUrlFrame { encoding, description, content }
ExtendedUrlFrame(encoding, description, content) ==
    [encoding |-> encoding, description |-> description, content |-> content]

UrlIdle ==
    /\ url_tag = <<>>
    /\ url_a = ExtendedUrlFrame("Latin1", <<>>, <<>>)
    /\ url_b = ExtendedUrlFrame("Latin1", <<>>, <<>>)
    /\ url_eq = TRUE
    /\ url_hashes = <<<<255>>, <<255>>>>
    /\ url_op = "new"

ConvIdle ==
    /\ cv_op = "idle"
    /\ cv_in = <<>>
    /\ cv_mid = <<>>
    /\ cv_out = <<>>

---------------------------------------------------------------------------
(* Option<T> *)

None == <<>>
Some(v) == <<v>>
IsSome(o) == Len(o) = 1
Unwrap(o) == o[1]

---------------------------------------------------------------------------
(* Text: character codes *)

CH_PLUS == <<43>>     \* "+"
CH_SLASH == <<47>>    \* "/"

IsDigit(c) == c \in 48 .. 57

\* u8::to_ascii_lowercase, as str::eq_ignore_ascii_case applies it
to_ascii_lowercase(c) == IF c \in 65 .. 90 THEN c + 32 ELSE c

\* str::to_ascii_uppercase on one character
to_ascii_uppercase(c) == IF c \in 97 .. 122 THEN c - 32 ELSE c

to_lower(s) == [i \in 1 .. Len(s) |-> to_ascii_lowercase(s[i])]
to_upper(s) == [i \in 1 .. Len(s) |-> to_ascii_uppercase(s[i])]

\* str::eq_ignore_ascii_case
eq_ignore_ascii_case(a, b) ==
    /\ Len(a) = Len(b)
    /\ \A i \in 1 .. Len(a) : to_ascii_lowercase(a[i]) = to_ascii_lowercase(b[i])

\* u32::to_string: the decimal digits, most significant first
RECURSIVE u32_to_string(_)
u32_to_string(n) ==
    IF n < 10 THEN <<48 + n>>
    ELSE u32_to_string(n \div 10) \o <<48 + (n % 10)>>

RECURSIVE DigitsValue(_)
DigitsValue(d) ==
    IF d = <<>> THEN 0
    ELSE 10 * DigitsValue(SubSeq(d, 1, Len(d) - 1)) + (d[Len(d)] - 48)

\* str::parse::<u32>: an optional '+', then one or more decimal digits.
\* The texts of the model are shorter than the ten digits 2^32 needs, so
\* the overflow error of the parser is outside the model.
parse_u32(s) ==
    LET d == IF s # <<>> /\ <<s[1]>> = CH_PLUS THEN Tail(s) ELSE s
    IN  IF d # <<>> /\ \A i \in 1 .. Len(d) : IsDigit(d[i])
        THEN Some(DigitsValue(d))
        ELSE None

\* str::split(sep): the segments between the separators (always at least one)
RECURSIVE Split(_, _)
Split(s, sep) ==
    IF \A i \in 1 .. Len(s) : s[i] # sep THEN <<s>>
    ELSE LET p == CHOOSE i \in 1 .. Len(s) :
                      s[i] = sep /\ \A j \in 1 .. i - 1 : s[j] # sep
         IN  <<SubSeq(s, 1, p - 1)>> \o Split(SubSeq(s, p + 1, Len(s)), sep)

\* iter.flat_map(str::parse::<u32>): the segments that parse, in order
RECURSIVE ParsedNumbers(_)
ParsedNumbers(segs) ==
    IF segs = <<>> THEN <<>>
    ELSE parse_u32(Head(segs)) \o ParsedNumbers(Tail(segs))

---------------------------------------------------------------------------
(* Keys and values of the model *)

KEY_TRACK == <<84, 114, 97, 99, 107>>       \* "Track"
KEY_TRACK_UPPER == <<84, 82, 65, 67, 75>>   \* "TRACK"
KEY_TRACK_LOWER == <<116, 114, 97, 99, 107>> \* "track"
KEY_DISC == <<68, 105, 115, 99>>            \* "Disc"
KEY_DISC_UPPER == <<68, 73, 83, 67>>        \* "DISC"
KEY_TITLE == <<84, 105, 116, 108, 101>>     \* "Title"
\* "Cover Art (Front)", shortened to "Cover" in the model
KEY_COVER == <<67, 111, 118, 101, 114>>

TextValue(t) == [kind |-> "Text", data |-> t]
BinaryValue(b) == [kind |-> "Binary", data |-> b]

\* the title set_title is called with: "A"
Titles == { <<65>> }

---------------------------------------------------------------------------
(* ApeItem and ApeTag *)

\* ApeItem { read_only, key, value }
ApeItem(ro, k, v) == [read_only |-> ro, key |-> k, value |-> v]

\* ApeItem::text: a text item that is not read-only
ApeItem_text(k, t) == ApeItem(FALSE, k, TextValue(t))

\* the items ApeTag::insert is called with:
\* TRACK = "x/5" (read-only), track = binary, DISC = "3/x"
InsertItems ==
    { ApeItem(TRUE, KEY_TRACK_UPPER, TextValue(<<120, 47, 53>>)),
      ApeItem(FALSE, KEY_TRACK_LOWER, BinaryValue(<<1>>)),
      ApeItem(FALSE, KEY_DISC_UPPER, TextValue(<<51, 47, 120>>)) }

\* the keys ApeTag::remove is called with
RemoveKeys == { KEY_TRACK_UPPER, KEY_DISC_UPPER }

\* ApeTag::get: the first item whose key matches, ignoring ASCII case
get(tag, key) ==
    LET hits == { i \in 1 .. Len(tag) : eq_ignore_ascii_case(tag[i].key, key) }
    IN  IF hits = {} THEN None
        ELSE Some(tag[CHOOSE i \in hits : \A j \in hits : i <= j])

\* ApeTag::remove: retain the items whose key does not match
remove(tag, key) ==
    SelectSeq(tag, LAMBDA it : ~eq_ignore_ascii_case(it.key, key))

\* an insert that only pushes
insert_push_only(tag, item) == Append(tag, item)

\* ApeTag::insert: remove the key, then push
insert(tag, item) == Append(remove(tag, item.key), item)

\* format_number_pair's default for a missing number
DEFAULT_NUMBER_IN_PAIR == 0

\* format_number_pair(number, total)
format_number_pair(number, total) ==
    IF IsSome(number) /\ ~IsSome(total) THEN Some(u32_to_string(Unwrap(number)))
    ELSE IF ~IsSome(number) /\ IsSome(total)
        THEN Some(u32_to_string(DEFAULT_NUMBER_IN_PAIR) \o CH_SLASH
                  \o u32_to_string(Unwrap(total)))
    ELSE IF IsSome(number) /\ IsSome(total)
        THEN Some(u32_to_string(Unwrap(number)) \o CH_SLASH
                  \o u32_to_string(Unwrap(total)))
    ELSE None

\* ApeTag::split_num_pair: (first, second) of the segments that parse
split_num_pair(tag, key) ==
    LET it == get(tag, key)
    IN  IF IsSome(it) /\ Unwrap(it).value.kind = "Text"
        THEN LET split == ParsedNumbers(Split(Unwrap(it).value.data, 47))
             IN  << IF Len(split) >= 1 THEN Some(split[1]) ELSE None,
                    IF Len(split) >= 2 THEN Some(split[2]) ELSE None >>
        ELSE <<None, None>>

\* ApeTag::insert_number_pair
insert_number_pair(tag, key, number, total) ==
    LET value == format_number_pair(number, total)
    IN  IF IsSome(value) THEN insert(tag, ApeItem_text(key, Unwrap(value)))
        ELSE tag

---------------------------------------------------------------------------
(* impl Accessor for ApeTag *)

track(tag) == split_num_pair(tag, KEY_TRACK)[1]
track_total(tag) == split_num_pair(tag, KEY_TRACK)[2]
disk(tag) == split_num_pair(tag, KEY_DISC)[1]
disk_total(tag) == split_num_pair(tag, KEY_DISC)[2]

\* a set_track that drops the total
set_track_drops_total(tag, value) ==
    insert_number_pair(tag, KEY_TRACK, Some(value), None)

set_track(tag, value) ==
    insert_number_pair(tag, KEY_TRACK, Some(value), track_total(tag))

remove_track(tag) == remove(tag, KEY_TRACK)

set_track_total(tag, value) ==
    insert_number_pair(tag, KEY_TRACK, track(tag), Some(value))

\* a remove_track_total that removes the whole item
remove_track_total_all(tag) == remove(tag, KEY_TRACK)

remove_track_total(tag) ==
    LET existing_track_number == track(tag)
        removed == remove(tag, KEY_TRACK)
    IN  IF IsSome(existing_track_number)
        THEN insert(removed,
                    ApeItem_text(KEY_TRACK, u32_to_string(Unwrap(existing_track_number))))
        ELSE removed

set_disk(tag, value) ==
    insert_number_pair(tag, KEY_DISC, Some(value), disk_total(tag))

remove_disk(tag) == remove(tag, KEY_DISC)

set_disk_total(tag, value) ==
    insert_number_pair(tag, KEY_DISC, disk(tag), Some(value))

\* as written: the number kept is the track number
remove_disk_total(tag) ==
    LET existing_track_number == track(tag)
        removed == remove(tag, KEY_DISC)
    IN  IF IsSome(existing_track_number)
        THEN insert(removed,
                    ApeItem_text(KEY_DISC, u32_to_string(Unwrap(existing_track_number))))
        ELSE removed

\* impl_accessor!(title => "Title"): title / set_title / remove_title
title(tag) ==
    LET it == get(tag, KEY_TITLE)
    IN  IF IsSome(it) /\ Unwrap(it).value.kind = "Text"
        THEN Some(Unwrap(it).value.data) ELSE None

set_title(tag, value) == insert(tag, ApeItem(FALSE, KEY_TITLE, TextValue(value)))

remove_title(tag) == remove(tag, KEY_TITLE)

---------------------------------------------------------------------------
(* merge_tag: a unified Tag into an ApeTag *)

\* the reserved keys: "ID3", "TAG", "OGGS", "MP+"
INVALID_KEYS ==
    { <<73, 68, 51>>, <<84, 65, 71>>, <<79, 71, 71, 83>>, <<77, 80, 43>> }

\* ApeItem::new succeeds: the key is legal and 2..=255 bytes long
ApeItem_new_ok(key) ==
    /\ to_upper(key) \notin INVALID_KEYS
    /\ Len(key) >= 2
    /\ Len(key) <= 255

\* str::trim, for the space character
RECURSIVE trim(_)
trim(s) ==
    IF s # <<>> /\ s[1] = 32 THEN trim(Tail(s))
    ELSE IF s # <<>> /\ s[Len(s)] = 32 THEN trim(SubSeq(s, 1, Len(s) - 1))
    ELSE s

\* set_number: the item's text, trimmed and parsed; None is "setter not called"
set_number(item) ==
    IF item.value.kind = "Text" THEN parse_u32(trim(item.value.data)) ELSE None

\* ItemKey::map_key(TagType::Ape), for the keys of the model
map_key(item_key) == IF item_key = "TrackTitle" THEN Some(KEY_TITLE) ELSE None

\* ApeTag::insert_item
insert_item(tag, item) ==
    LET number == set_number(item)
        key == map_key(item.key)
    IN  IF item.key = "TrackNumber"
        THEN IF IsSome(number) THEN set_track(tag, Unwrap(number)) ELSE tag
        ELSE IF item.key = "TrackTotal"
        THEN IF IsSome(number) THEN set_track_total(tag, Unwrap(number)) ELSE tag
        ELSE IF item.key = "DiscNumber"
        THEN IF IsSome(number) THEN set_disk(tag, Unwrap(number)) ELSE tag
        ELSE IF item.key = "DiscTotal"
        THEN IF IsSome(number) THEN set_disk_total(tag, Unwrap(number)) ELSE tag
        ELSE IF IsSome(key) /\ ApeItem_new_ok(Unwrap(key))
        THEN insert(tag, ApeItem(FALSE, Unwrap(key), item.value))
        ELSE tag

\* PictureType::as_ape_key, for the picture types of the model
as_ape_key(pic_type) == IF pic_type = "CoverFront" THEN Some(KEY_COVER) ELSE None

RECURSIVE merge_items(_, _)
merge_items(tag, tag_items) ==
    IF tag_items = <<>> THEN tag
    ELSE merge_items(insert_item(tag, Head(tag_items)), Tail(tag_items))

RECURSIVE merge_pictures(_, _)
merge_pictures(tag, pictures) ==
    IF pictures = <<>> THEN tag
    ELSE LET pic == Head(pictures)
             key == as_ape_key(pic.pic_type)
         IN  merge_pictures(
                 IF IsSome(key) /\ ApeItem_new_ok(Unwrap(key))
                 THEN insert(tag, ApeItem(FALSE, Unwrap(key), BinaryValue(pic.data)))
                 ELSE tag,
                 Tail(pictures))

\* MergeTag for SplitTagRemainder: the items, then the pictures
merge_tag(remainder, tag) ==
    merge_pictures(merge_items(remainder, tag.items), tag.pictures)

\* the unified items merge_tag is given:
\* TrackNumber " 1", DiscTotal "x", TrackTitle "A"
TagItem(k, v) == [key |-> k, value |-> v]
UnifiedItems ==
    { TagItem("TrackNumber", TextValue(<<32, 49>>)),
      TagItem("DiscTotal", TextValue(<<120>>)),
      TagItem("TrackTitle", TextValue(<<65>>)) }

RECURSIVE SeqsUpTo(_, _)
SeqsUpTo(S, n) ==
    IF n = 0 THEN { <<>> }
    ELSE LET shorter == SeqsUpTo(S, n - 1)
         IN  shorter \cup { Append(q, x) : q \in shorter, x \in S }

\* the pictures merge_tag is given: none, or one of a type without an APE key
UnifiedPictures ==
    { <<>>, << [pic_type |-> "Undefined", data |-> <<7>>] >> }

UnifiedTags ==
    { [items |-> q, pictures |-> p] : q \in SeqsUpTo(UnifiedItems, MaxMerge),
                                      p \in UnifiedPictures }

---------------------------------------------------------------------------
(* read_ape_tag_with_header: the item records of an APE tag *)

\* a little-endian u32 as four bytes (the writer's side of read_u32)
u32_le(n) ==
    << n % 256, (n \div 256) % 256, (n \div 65536) % 256, (n \div 16777216) % 256 >>

\* one item record: value size, flags, key, a zero byte, the value
EncodeRecord(r) ==
    u32_le(Len(r.value)) \o u32_le(r.flags) \o r.key \o <<0>> \o r.value

RECURSIVE EncodeRecords(_)
EncodeRecords(rs) ==
    IF rs = <<>> THEN <<>> ELSE EncodeRecord(Head(rs)) \o EncodeRecords(Tail(rs))

\* the 32-byte footer: "APETAGEX" and 24 more bytes
Footer == <<65, 80, 69, 84, 65, 71, 69, 88>> \o [i \in 1 .. 24 |-> 0]

Record(k, fl, v) == [key |-> k, flags |-> fl, value |-> v]

\* flags: bit 0 read-only, bits 1-2 the item type (0 text, 1 binary, 2 locator)
Flags(item_type, read_only) == 2 * item_type + (IF read_only THEN 1 ELSE 0)
FLAGS_TEXT == Flags(0, FALSE)
FLAGS_BINARY_RO == Flags(1, TRUE)
FLAGS_LOCATOR == Flags(2, FALSE)
FLAGS_TYPE3 == Flags(3, FALSE)

\* a key of 256 bytes
LongKey == [i \in 1 .. 256 |-> 75]

\* a well-formed record "Xy" = "q", as the value bytes of another record
EmbeddedRecord == EncodeRecord(Record(<<88, 121>>, FLAGS_TEXT, <<113>>))

\* the records of the model
GoodRecords ==
    { Record(<<65, 98>>, FLAGS_TEXT, <<120>>),          \* "Ab" = "x"
      Record(<<65, 66>>, FLAGS_LOCATOR, <<121>>),       \* "AB" = locator "y"
      Record(<<67, 100>>, FLAGS_BINARY_RO, <<255>>) }   \* "Cd" = binary, read-only

ShortKeyRecords ==
    { Record(<<65>>, FLAGS_TEXT, <<122, 122>>),         \* "A" = "zz"
      Record(<<>>, FLAGS_TEXT, <<122>>),                \* "" = "z"
      Record(<<65>>, FLAGS_TEXT, EmbeddedRecord) }      \* "A" = a record's bytes

LongKeyRecords == { Record(LongKey, FLAGS_TEXT, <<122>>) }

\* "tag", "Id3": reserved keys in another casing
ReservedKeyRecords ==
    { Record(<<116, 97, 103>>, FLAGS_TEXT, <<119>>),
      Record(<<73, 100, 51>>, FLAGS_BINARY_RO, <<119>>) }

OtherRecords ==
    { Record(<<69, 102>>, FLAGS_TEXT, <<>>),            \* "Ef", no value
      Record(<<71, 104>>, FLAGS_TYPE3, <<120>>),        \* "Gh", item type 3
      Record(<<73, 106>>, FLAGS_TEXT, <<255>>) }        \* "Ij" = text, not UTF-8

Records ==
    GoodRecords \cup ShortKeyRecords \cup LongKeyRecords
        \cup ReservedKeyRecords \cup OtherRecords

\* the size an APE header declares: all item records and the footer
DeclaredSize(rs) == Len(EncodeRecords(rs)) + Len(Footer)

\* utf8_decode succeeds: of the bytes of the model, 0xFF is in no UTF-8 text
utf8_ok(bytes) == \A i \in 1 .. Len(bytes) : bytes[i] < 128

\* the low 31 bits of read_u32::<LittleEndian> at 0-based position p
read_u32_low(d, p) ==
    d[p + 1] + 256 * d[p + 2] + 65536 * d[p + 3] + 16777216 * (d[p + 4] % 128)

\* bit 31 of read_u32::<LittleEndian> at position p
read_u32_high(d, p) == d[p + 4] >= 128

\* the position of the key's terminator, or 0 when the stream ends first
KeyEnd(d, p) ==
    LET zs == { i \in p + 1 .. Len(d) : d[i] = 0 }
    IN  IF zs = {} THEN 0 ELSE CHOOSE i \in zs : \A j \in zs : i <= j

Failed(r, e) == [r EXCEPT !.result = e]

\* the value is read, decoded by item type and inserted
read_item_value(d, r, key, flags, value_size, p) ==
    LET read_only == (flags % 2) = 1
        item_type == (flags \div 2) % 4
        value == SubSeq(d, p + 1, p + value_size)
        kind == IF item_type = 0 THEN "Text"
                ELSE IF item_type = 1 THEN "Binary" ELSE "Locator"
    IN  IF p + value_size > Len(d) THEN Failed(r, "Io")
        ELSE IF item_type = 3 THEN Failed(r, "Decode: invalid item type")
        ELSE IF item_type # 1 /\ ~utf8_ok(value)
            THEN Failed(r, "Decode: value is not UTF-8")
        ELSE IF ~ApeItem_new_ok(key) THEN Failed(r, "Decode: ApeItem::new")
        ELSE [r EXCEPT !.pos = p + value_size,
                       !.tag = insert(r.tag, ApeItem(read_only, key,
                                                     [kind |-> kind, data |-> value]))]

\* `continue` on an invalid key: the position stays behind the key's terminator
skip_item(d, r, value_size, p) == [r EXCEPT !.pos = p]

\* an illegal key that is skipped like a key of invalid length
illegal_key_skipped(d, r, value_size, p) == skip_item(d, r, value_size, p)

\* decode_err!(@BAIL ...) on an illegal key
illegal_key(d, r, value_size, p) == Failed(r, "Decode: illegal key")

\* one iteration of the item loop, from the size word on; r is
\* [pos, remaining_size, i, tag, result] with remaining_size >= 11
read_item(d, r) ==
    LET p0 == r.pos
        value_size == read_u32_low(d, p0)
        r1 == [r EXCEPT !.remaining_size = r.remaining_size - 4, !.i = r.i + 1]
        flags == read_u32_low(d, p0 + 4)
        ke == KeyEnd(d, p0 + 8)
        key == SubSeq(d, p0 + 9, ke - 1)
    IN  IF p0 + 4 > Len(d) THEN Failed(r, "Io")
        ELSE IF read_u32_high(d, p0) \/ value_size > r.remaining_size
            THEN Failed(r, "SizeMismatch")
        ELSE IF p0 + 8 > Len(d) \/ ke = 0 THEN Failed(r1, "Io")
        ELSE IF ~utf8_ok(key) THEN Failed(r1, "Decode: key is not UTF-8")
        ELSE IF to_upper(key) \in INVALID_KEYS THEN illegal_key(d, r1, value_size, ke)
        ELSE IF value_size = 0 \/ Len(key) < 2 \/ Len(key) > 255
            THEN skip_item(d, r1, value_size, ke)
        ELSE read_item_value(d, r1, key, flags, value_size, ke)

\* the reader's locals as one record
Reader ==
    [pos |-> rd_pos, remaining_size |-> rd_remaining, i |-> rd_i,
     tag |-> rd_tag, result |-> rd_result]

\* the headers a stream of records is read under: the one that declares what
\* the stream holds, one that declares a tag of 14 bytes, and one that
\* declares the footer and a single byte
Headers(rs) ==
    { [size |-> DeclaredSize(rs), item_count |-> Len(rs)],
      [size |-> 14, item_count |-> Len(rs)],
      [size |-> Len(Footer) + 1, item_count |-> Len(rs)] }

\* the whole of read_ape_tag_with_header: the item loop, then the footer
RECURSIVE read_items(_, _, _)
read_items(d, h, r) ==
    IF r.result # "running" THEN r
    ELSE IF r.i >= h.item_count \/ r.remaining_size < 11
        THEN [r EXCEPT !.pos = r.pos + 32, !.result = "Ok"]
    ELSE read_items(d, h, read_item(d, r))

read_ape_tag_with_header(d, h) ==
    read_items(d, h, [pos |-> 0, remaining_size |-> h.size, i |-> 0,
                      tag |-> <<>>, result |-> "running"])

\* the records of the tags the accessors are given after a read:
\* "track" = "2/3" (read-only), "TRACK" = binary
ReadRecords ==
    { Record(KEY_TRACK_LOWER, Flags(0, TRUE), <<50, 47, 51>>),
      Record(KEY_TRACK_UPPER, FLAGS_BINARY_RO, <<255>>) }

\* the streams a tag is read from
ReadStreams == SeqsUpTo(ReadRecords, 2)

\* what read_ape_tag_with_header returns for a stream under the header that
\* declares its records
ReadStream(rs) ==
    read_ape_tag_with_header(EncodeRecords(rs) \o Footer,
                             [size |-> DeclaredSize(rs), item_count |-> Len(rs)])

\* the tags read from the streams
ReadTags == { ReadStream(rs).tag : rs \in { q \in ReadStreams : ReadStream(q).result = "Ok" } }

InitApeRead ==
    /\ rd_records \in SeqsUpTo(Records, MaxRecords)
    /\ rd_data = EncodeRecords(rd_records) \o Footer
    /\ rd_header \in Headers(rd_records)
    /\ rd_pos = 0
    /\ rd_remaining = rd_header.size
    /\ rd_i = 0
    /\ rd_tag = <<>>
    /\ rd_result = "running"
    /\ ApeTagIdle
    /\ Id3Idle
    /\ FlacIdle
    /\ UrlIdle
    /\ ConvIdle

\* one iteration of `for _ in 0..header.item_count`
ReadItem ==
    /\ rd_result = "running"
    /\ rd_i < rd_header.item_count
    /\ rd_remaining >= 11
    /\ LET r == read_item(rd_data, Reader)
       IN  /\ rd_pos' = r.pos
           /\ rd_remaining' = r.remaining_size
           /\ rd_i' = r.i
           /\ rd_tag' = r.tag
           /\ rd_result' = r.result
    /\ UNCHANGED <<rd_records, rd_data, rd_header>>
    /\ UNCHANGED notApeReadVars

\* the loop is left: the footer is skipped and the tag returned
SkipFooter ==
    /\ rd_result = "running"
    /\ rd_i >= rd_header.item_count \/ rd_remaining < 11
    /\ rd_pos' = rd_pos + 32
    /\ rd_result' = "Ok"
    /\ UNCHANGED <<rd_records, rd_data, rd_header, rd_remaining, rd_i, rd_tag>>
    /\ UNCHANGED notApeReadVars

NextApeRead ==
    \/ ReadItem
    \/ SkipFooter

SpecApeRead == InitApeRead /\ [][NextApeRead]_vars

---------------------------------------------------------------------------
(* parse_id3v2: the frame loop of an ID3v2.4 tag body *)

\* a frame: a 4-character identifier and its content bytes
Frame(id, content) == [id |-> id, content |-> content]

\* a frame header: the identifier, the size (synchsafe, below 128 here) in
\* four bytes, two flag bytes; then the content
EncodeFrame(f) ==
    f.id \o <<0, 0, 0, Len(f.content)>> \o <<0, 0>> \o f.content

RECURSIVE EncodeFrames(_)
EncodeFrames(fs) ==
    IF fs = <<>> THEN <<>> ELSE EncodeFrame(Head(fs)) \o EncodeFrames(Tail(fs))

\* the writer's unsynchronisation: a 0x00 is put behind every 0xFF
RECURSIVE unsynchronise(_)
unsynchronise(b) ==
    IF b = <<>> THEN <<>>
    ELSE IF Head(b) = 255 THEN <<255, 0>> \o unsynchronise(Tail(b))
    ELSE <<Head(b)>> \o unsynchronise(Tail(b))

\* UnsynchronizedStream: every 0xFF 0x00 of the raw bytes is read as 0xFF
RECURSIVE UnsynchronizedStream(_)
UnsynchronizedStream(b) ==
    IF b = <<>> THEN <<>>
    ELSE IF Len(b) >= 2 /\ b[1] = 255 /\ b[2] = 0
        THEN <<255>> \o UnsynchronizedStream(SubSeq(b, 3, Len(b)))
    ELSE <<Head(b)>> \o UnsynchronizedStream(Tail(b))

\* a frame identifier is made of A-Z and 0-9
FrameIdOk(id) == \A i \in 1 .. Len(id) : id[i] \in 65 .. 90 \/ id[i] \in 48 .. 57

\* the four size bytes of a frame header, synchsafe
FrameSize(b, p) ==
    2097152 * b[p + 5] + 16384 * b[p + 6] + 128 * b[p + 7] + b[p + 8]

\* ParsedFrame::read at position p of the stream b: Next(frame), Skip{size},
\* Eof, or an error
ParsedFrame_read(b, p, mode) ==
    IF p + 10 > Len(b) \/ b[p + 1] = 0 THEN [kind |-> "Eof", pos |-> p]
    ELSE LET id == SubSeq(b, p + 1, p + 4)
             size == FrameSize(b, p)
         IN  IF ~FrameIdOk(id)
             THEN IF mode = "Strict" THEN [kind |-> "Err", err |-> "BadFrameId", pos |-> p + 10]
                  ELSE [kind |-> "Skip", size |-> size, pos |-> p + 10]
             ELSE IF p + 10 + size > Len(b)
                 THEN [kind |-> "Err", err |-> "Io", pos |-> Len(b)]
             ELSE [kind |-> "Next", pos |-> p + 10 + size,
                   frame |-> Frame(id, SubSeq(b, p + 11, p + 10 + size))]

\* Id3v2Tag::insert: the frame takes the place of a frame of the same identifier
Id3v2Tag_insert(tag, frame) ==
    Append(SelectSeq(tag, LAMBDA f : f.id # frame.id), frame)

\* a skip_frame that skips nothing
skip_frame_nothing(b, p, size) == [ok |-> TRUE, pos |-> p]

\* skip_frame: `size` bytes are read and dropped; fewer is BadFrameLength
skip_frame(b, p, size) ==
    LET skipped == IF p + size <= Len(b) THEN size ELSE Len(b) - p
    IN  [ok |-> skipped = size, pos |-> p + skipped]

\* one iteration of the loop of read_all_frames_into_tag;
\* r is [pos, tag, result], result "frames" while the loop runs
read_frame(b, r, mode) ==
    LET pf == ParsedFrame_read(b, r.pos, mode)
    IN  IF pf.kind = "Err" THEN [r EXCEPT !.pos = pf.pos, !.result = pf.err]
        ELSE IF pf.kind = "Next"
            THEN [r EXCEPT !.pos = pf.pos, !.tag = Id3v2Tag_insert(r.tag, pf.frame)]
        ELSE IF pf.kind = "Skip"
            THEN LET sk == skip_frame(b, pf.pos, pf.size)
                 IN  [r EXCEPT !.pos = sk.pos,
                               !.result = IF sk.ok THEN r.result ELSE "BadFrameLength"]
        ELSE [r EXCEPT !.result = "drain"]

\* a tag_bytes that is not bounded by the declared size
tag_bytes_unbounded(bytes, header) == bytes

\* bytes.take(header.size - header.extended_size)
tag_bytes(bytes, header) ==
    LET n == header.size - header.extended_size
    IN  SubSeq(bytes, 1, IF n <= Len(bytes) THEN n ELSE Len(bytes))

\* the stream read_all_frames_into_tag reads from
frame_stream(bytes, header) ==
    IF header.unsynchronisation THEN UnsynchronizedStream(tag_bytes(bytes, header))
    ELSE tag_bytes(bytes, header)

\* the frames of the model: two text frames, a second title, a frame
\* holding 0xFF, and two frames whose identifier holds a '+'
TIT2 == <<84, 73, 84, 50>>
TPE1 == <<84, 80, 69, 49>>
BAD_ID == <<84, 43, 84, 50>>
GoodFrames ==
    { Frame(TIT2, <<97>>), Frame(TPE1, <<255, 98>>), Frame(TIT2, <<99, 99>>) }
BadIdFrames == { Frame(BAD_ID, <<122, 122, 122>>) }
Frames == GoodFrames \cup BadIdFrames

\* the padding behind the frames
Paddings == { <<>>, <<0, 0, 0>> }

\* the body holds the frames and the padding; the header declares the body,
\* or one byte less, or more bytes than the input holds, with or without an
\* extended header (read before parse_id3v2); the input goes on behind the tag
InitId3 ==
    /\ id3_frames \in SeqsUpTo(Frames, MaxFrames)
    /\ id3_mode \in {"Strict", "Relaxed"}
    /\ \E unsync \in BOOLEAN, pad \in Paddings, cut \in {0, 1, -5}, ext \in {0, 6} :
         LET body == (IF unsync THEN unsynchronise(EncodeFrames(id3_frames))
                      ELSE EncodeFrames(id3_frames)) \o pad
         IN  /\ Len(body) >= cut
             /\ id3_header = [size |-> Len(body) - cut + ext, extended_size |-> ext,
                              unsynchronisation |-> unsync]
             /\ id3_bytes = body \o <<255, 251>>
    /\ id3_pos = 0
    /\ id3_consumed = 0
    /\ id3_tag = <<>>
    /\ id3_result = "frames"
    /\ ApeTagIdle
    /\ ApeReadIdle
    /\ FlacIdle
    /\ UrlIdle
    /\ ConvIdle

\* one iteration of the frame loop
ReadFrame ==
    /\ id3_result = "frames"
    /\ LET r == read_frame(frame_stream(id3_bytes, id3_header),
                           [pos |-> id3_pos, tag |-> id3_tag, result |-> id3_result],
                           id3_mode)
       IN  /\ id3_pos' = r.pos
           /\ id3_tag' = r.tag
           /\ id3_result' = r.result
    /\ UNCHANGED <<id3_frames, id3_header, id3_bytes, id3_mode, id3_consumed>>
    /\ UNCHANGED notId3Vars

\* the rest of the tag is thrown away and the tag returned
DrainTag ==
    /\ id3_result = "drain"
    /\ id3_consumed' = Len(tag_bytes(id3_bytes, id3_header))
    /\ id3_result' = "Ok"
    /\ UNCHANGED <<id3_frames, id3_header, id3_bytes, id3_mode, id3_pos, id3_tag>>
    /\ UNCHANGED notId3Vars

NextId3 ==
    \/ ReadFrame
    \/ DrainTag

SpecId3 == InitId3 /\ [][NextId3]_vars

---------------------------------------------------------------------------
(* flac::read_from: the metadata block chain *)

\* the whole of read_all_frames_into_tag
RECURSIVE read_all_frames_into_tag(_, _, _)
read_all_frames_into_tag(b, r, mode) ==
    IF r.result # "frames" THEN r
    ELSE read_all_frames_into_tag(b, read_frame(b, r, mode), mode)

\* parse_id3v2: the frames, then the rest of the tag is thrown away
parse_id3v2(bytes, header, mode) ==
    LET r == read_all_frames_into_tag(frame_stream(bytes, header),
                                      [pos |-> 0, tag |-> <<>>, result |-> "frames"],
                                      mode)
    IN  IF r.result = "drain"
        THEN [result |-> "Ok", tag |-> r.tag,
              consumed |-> Len(tag_bytes(bytes, header))]
        ELSE [result |-> r.result, tag |-> <<>>, consumed |-> r.pos]

\* the block types
BLOCK_ID_STREAMINFO == 0
BLOCK_ID_PADDING == 1
BLOCK_ID_APPLICATION == 2
BLOCK_ID_SEEKTABLE == 3
BLOCK_ID_VORBIS_COMMENTS == 4
BLOCK_ID_PICTURE == 6

\* Block { ty, last, content }
Block(ty, last, content) == [ty |-> ty, last |-> last, content |-> content]

\* block.end - block.start: the bytes of the block's content
BlockLen(block) == Len(block.content)

\* Block::read: the next block of the stream, None at its end (an Io error)
Block_read(stream, n) ==
    IF n < Len(stream.blocks) THEN Some(stream.blocks[n + 1]) ELSE None

\* find_id3v2(data, true): the header and content of a leading ID3v2 tag
find_id3v2(stream) == stream.id3

\* read_comments: the Vorbis Comments of a block, an error for content the
\* codec does not decode (0xFF in the model)
read_comments(content) ==
    IF content # <<>> /\ content[1] # 255 THEN [ok |-> TRUE, tag |-> content]
    ELSE [ok |-> FALSE, tag |-> <<>>]

\* Picture::from_flac_bytes: the picture of a block, an error for content the
\* codec does not decode (0xFF in the model)
from_flac_bytes(content) ==
    IF content # <<>> /\ content[1] # 255 THEN [ok |-> TRUE, picture |-> content]
    ELSE [ok |-> FALSE, picture |-> <<>>]

\* read_properties: the properties of the STREAMINFO content, an error for
\* content it does not decode (0xFF in the model)
read_properties(content) ==
    IF content # <<>> /\ content[1] # 255 THEN [ok |-> TRUE, properties |-> "read"]
    ELSE [ok |-> FALSE, properties |-> "default"]

MARKER_FLAC == <<102, 76, 97, 67>>      \* "fLaC"

\* a verify_flac that takes any block for STREAMINFO
verify_flac_any_block(stream) ==
    LET block == Block_read(stream, 0)
    IN  IF Len(stream.marker) < 4 THEN [err |-> "Io", read |-> 0]
        ELSE IF stream.marker # MARKER_FLAC
            THEN [err |-> "Decode: missing fLaC marker", read |-> 0]
        ELSE IF ~IsSome(block) THEN [err |-> "Io", read |-> 0]
        ELSE [err |-> "", read |-> 1, block |-> Unwrap(block)]

\* verify_flac: the marker, then the first block, which must be STREAMINFO
verify_flac(stream) ==
    LET block == Block_read(stream, 0)
    IN  IF Len(stream.marker) < 4 THEN [err |-> "Io", read |-> 0]
        ELSE IF stream.marker # MARKER_FLAC
            THEN [err |-> "Decode: missing fLaC marker", read |-> 0]
        ELSE IF ~IsSome(block) THEN [err |-> "Io", read |-> 0]
        ELSE IF Unwrap(block).ty # BLOCK_ID_STREAMINFO
            THEN [err |-> "Decode: missing STREAMINFO", read |-> 1]
        ELSE [err |-> "", read |-> 1, block |-> Unwrap(block)]

\* read_from up to the block loop: the leading ID3v2 tag, verify_flac, the
\* length of STREAMINFO; s is [file, read, last_block, result]
read_from_verify(stream, options, s) ==
    LET found == find_id3v2(stream)
        id3v2 == parse_id3v2(Unwrap(found).content, Unwrap(found).header,
                             options.parsing_mode)
        file == IF IsSome(found)
                THEN [s.file EXCEPT !.id3v2_tag = Some(id3v2.tag)] ELSE s.file
        stream_info == verify_flac(stream)
    IN  IF IsSome(found) /\ id3v2.result # "Ok"
        THEN [s EXCEPT !.result = id3v2.result]
        ELSE IF stream_info.err # ""
            THEN [s EXCEPT !.file = file, !.read = stream_info.read,
                           !.result = stream_info.err]
        ELSE IF BlockLen(stream_info.block) < 18
            THEN [s EXCEPT !.file = file, !.read = stream_info.read,
                           !.result = "Decode: invalid STREAMINFO size"]
        ELSE [s EXCEPT !.file = file, !.read = stream_info.read,
                       !.last_block = stream_info.block.last]

\* a Vorbis Comments block in which the first tag read is kept
vorbis_block_keeps_first(block, options, s) ==
    LET vorbis_comments == read_comments(block.content)
    IN  IF ~vorbis_comments.ok THEN [s EXCEPT !.result = "Decode: Vorbis Comments"]
        ELSE IF IsSome(s.file.vorbis_comments_tag) THEN s
        ELSE [s EXCEPT !.file.vorbis_comments_tag = Some(vorbis_comments.tag)]

\* a Vorbis Comments block: a second one is an error in Strict mode, else
\* the tag read takes the place of the earlier one
vorbis_block(block, options, s) ==
    LET vorbis_comments == read_comments(block.content)
    IN  IF IsSome(s.file.vorbis_comments_tag) /\ options.parsing_mode = "Strict"
        THEN [s EXCEPT !.result = "Decode: more than one Vorbis Comments block"]
        ELSE IF ~vorbis_comments.ok THEN [s EXCEPT !.result = "Decode: Vorbis Comments"]
        ELSE [s EXCEPT !.file.vorbis_comments_tag = Some(vorbis_comments.tag)]

\* a Picture block whose decode error is returned in every mode
picture_block_always_fatal(block, options, s) ==
    LET picture == from_flac_bytes(block.content)
    IN  IF picture.ok
        THEN [s EXCEPT !.file.pictures = Append(s.file.pictures, picture.picture)]
        ELSE [s EXCEPT !.result = "Picture"]

\* a Picture block: a decode error is returned in Strict mode, else dropped
picture_block(block, options, s) ==
    LET picture == from_flac_bytes(block.content)
    IN  IF picture.ok
        THEN [s EXCEPT !.file.pictures = Append(s.file.pictures, picture.picture)]
        ELSE IF options.parsing_mode = "Strict" THEN [s EXCEPT !.result = "Picture"]
        ELSE s

\* one iteration of `while !last_block`
read_block(stream, options, s) ==
    LET got == Block_read(stream, s.read)
        block == Unwrap(got)
        s1 == [s EXCEPT !.read = s.read + 1, !.last_block = block.last]
    IN  IF ~IsSome(got) THEN [s EXCEPT !.result = "Io"]
        ELSE IF /\ block.content = <<>>
                /\ block.ty # BLOCK_ID_PADDING
                /\ block.ty # BLOCK_ID_SEEKTABLE
            THEN [s1 EXCEPT !.result = "Decode: zero-sized metadata block"]
        ELSE IF block.ty = BLOCK_ID_VORBIS_COMMENTS THEN vorbis_block(block, options, s1)
        ELSE IF block.ty = BLOCK_ID_PICTURE THEN picture_block(block, options, s1)
        ELSE s1

\* STREAMINFO blocks of 18 and of 17 bytes, filled with the byte b
StreamInfoOf(n, last, b) == Block(BLOCK_ID_STREAMINFO, last, [i \in 1 .. n |-> b])
StreamInfo(n, last) == StreamInfoOf(n, last, 16)

\* the blocks behind STREAMINFO: padding, two Vorbis Comments blocks, two
\* pictures, a picture that does not decode, an empty APPLICATION block
ChainBlocks ==
    { Block(BLOCK_ID_PADDING, FALSE, <<>>),
      Block(BLOCK_ID_VORBIS_COMMENTS, FALSE, <<1>>),
      Block(BLOCK_ID_VORBIS_COMMENTS, FALSE, <<2>>),
      Block(BLOCK_ID_PICTURE, FALSE, <<3>>),
      Block(BLOCK_ID_PICTURE, FALSE, <<5>>),
      Block(BLOCK_ID_PICTURE, FALSE, <<255>>),
      Block(BLOCK_ID_APPLICATION, FALSE, <<>>) }

\* the chain with its final block marked as the last one
MarkLast(chain) ==
    IF chain = <<>> THEN chain
    ELSE [chain EXCEPT ![Len(chain)] = [chain[Len(chain)] EXCEPT !.last = TRUE]]

\* a leading ID3v2 tag: header and content, of two frames
Id3Prefix(frames) ==
    [header |-> [size |-> Len(EncodeFrames(frames)), extended_size |-> 0,
                 unsynchronisation |-> FALSE],
     content |-> EncodeFrames(frames)]

\* how a stream begins: id3, marker, the first block
Heads ==
    { [id3 |-> None, marker |-> MARKER_FLAC, first |-> StreamInfo(18, FALSE)],
      [id3 |-> Some(Id3Prefix(<<Frame(TIT2, <<97>>), Frame(BAD_ID, <<122>>)>>)),
       marker |-> MARKER_FLAC, first |-> StreamInfo(18, FALSE)],
      [id3 |-> None, marker |-> MARKER_FLAC, first |-> StreamInfoOf(18, FALSE, 255)] }

\* beginnings that end the read, or after which the chain is not walked
ShortHeads ==
    { [id3 |-> None, marker |-> <<102, 76, 97, 99>>, first |-> StreamInfo(18, FALSE)],
      [id3 |-> None, marker |-> MARKER_FLAC,
       first |-> Block(BLOCK_ID_VORBIS_COMMENTS, FALSE, [i \in 1 .. 18 |-> 1])],
      [id3 |-> None, marker |-> MARKER_FLAC, first |-> StreamInfo(17, FALSE)],
      [id3 |-> None, marker |-> MARKER_FLAC, first |-> StreamInfo(18, TRUE)],
      [id3 |-> None, marker |-> <<102, 76>>, first |-> StreamInfo(18, FALSE)] }

Chains == SeqsUpTo(ChainBlocks, MaxBlocks)
ShortChains == SeqsUpTo(ChainBlocks, 1)

FlacStreams ==
    { [id3 |-> h.id3, marker |-> h.marker, blocks |-> <<h.first>> \o c] :
        h \in Heads, c \in Chains \cup { MarkLast(q) : q \in Chains } }
    \cup
    { [id3 |-> h.id3, marker |-> h.marker, blocks |-> <<h.first>> \o MarkLast(c)] :
        h \in ShortHeads, c \in ShortChains }
    \cup
    { [id3 |-> None, marker |-> MARKER_FLAC, blocks |-> <<>>] }

InitFlac ==
    /\ fl_stream \in FlacStreams
    /\ fl_options \in [parsing_mode : {"Strict", "Relaxed"}, read_properties : BOOLEAN]
    /\ fl_pc = "verify"
    /\ fl_read = 0
    /\ fl_last_block = FALSE
    /\ fl_file = EmptyFlacFile
    /\ fl_result = "running"
    /\ ApeTagIdle
    /\ ApeReadIdle
    /\ Id3Idle
    /\ UrlIdle
    /\ ConvIdle

FlacState ==
    [file |-> fl_file, read |-> fl_read, last_block |-> fl_last_block,
     result |-> fl_result]

\* the leading ID3v2 tag, verify_flac and the STREAMINFO length
FlacVerify ==
    /\ fl_pc = "verify"
    /\ LET s == read_from_verify(fl_stream, fl_options, FlacState)
       IN  /\ fl_file' = s.file
           /\ fl_read' = s.read
           /\ fl_last_block' = s.last_block
           /\ fl_result' = s.result
           /\ fl_pc' = IF s.result = "running" THEN "blocks" ELSE "done"
    /\ UNCHANGED <<fl_stream, fl_options>>
    /\ UNCHANGED notFlacVars

\* one iteration of `while !last_block`
FlacReadBlock ==
    /\ fl_pc = "blocks"
    /\ ~fl_last_block
    /\ LET s == read_block(fl_stream, fl_options, FlacState)
       IN  /\ fl_file' = s.file
           /\ fl_read' = s.read
           /\ fl_last_block' = s.last_block
           /\ fl_result' = s.result
           /\ fl_pc' = IF s.result = "running" THEN "blocks" ELSE "done"
    /\ UNCHANGED <<fl_stream, fl_options>>
    /\ UNCHANGED notFlacVars

\* behind the last block: the properties, if asked for, and the FlacFile
FlacReturn ==
    /\ fl_pc = "blocks"
    /\ fl_last_block
    /\ LET properties == read_properties(fl_stream.blocks[1].content)
       IN  IF ~fl_options.read_properties
           THEN fl_file' = fl_file /\ fl_result' = "Ok"
           ELSE IF ~properties.ok
               THEN fl_file' = fl_file /\ fl_result' = "Decode: properties"
           ELSE /\ fl_file' = [fl_file EXCEPT !.properties = properties.properties]
                /\ fl_result' = "Ok"
    /\ fl_pc' = "done"
    /\ UNCHANGED <<fl_stream, fl_options, fl_read, fl_last_block>>
    /\ UNCHANGED notFlacVars

NextFlac ==
    \/ FlacVerify
    \/ FlacReadBlock
    \/ FlacReturn

SpecFlac == InitFlac /\ [][NextFlac]_vars

---------------------------------------------------------------------------
(* ExtendedUrlFrame: equality, hashing, and the frames of a tag *)

\* an eq that looks at the content as well
eq_description_and_content(self, other) ==
    self.description = other.description /\ self.content = other.content

\* impl PartialEq for ExtendedUrlFrame
eq(self, other) == self.description = other.description

\* <str as Hash>::hash: the bytes of the string, then 0xFF; the Hasher is
\* modelled by the bytes it has been fed
str_hash(str, state) == state \o str \o <<255>>

\* impl Hash for ExtendedUrlFrame
hash(self, state) == str_hash(self.description, state)

\* Id3v2Tag::insert for ExtendedUrlFrames: the frame takes the place of the
\* frames equal to it
Id3v2Tag_insert_url(tag, frame) ==
    Append(SelectSeq(tag, LAMBDA f : ~eq(f, frame)), frame)

UrlDescriptions == SeqsUpTo({97}, MaxDescription)
UrlContents == { <<120>>, <<121>> }
UrlEncodings == { "Latin1", "UTF16" }

UrlFrames ==
    { ExtendedUrlFrame(e, d, c) : e \in UrlEncodings, d \in UrlDescriptions,
                                  c \in UrlContents }

InitUrl ==
    /\ UrlIdle
    /\ ConvIdle
    /\ ApeTagIdle
    /\ ApeReadIdle
    /\ Id3Idle
    /\ FlacIdle

\* a == b, hash(a), hash(b)
UrlCompare ==
    /\ url_op' = "compare"
    /\ \E a, b \in UrlFrames :
          /\ url_a' = a
          /\ url_b' = b
          /\ url_eq' = eq(a, b)
          /\ url_hashes' = <<hash(a, <<>>), hash(b, <<>>)>>
    /\ UNCHANGED url_tag
    /\ UNCHANGED notUrlVars

\* tag.insert(frame); the operands are the frame and the frame of the tag it
\* is equal to, itself if there is none
UrlInsert ==
    /\ url_op' = "insert"
    /\ \E frame \in UrlFrames :
          LET equal == SelectSeq(url_tag, LAMBDA f : eq(f, frame))
              other == IF equal = <<>> THEN frame ELSE equal[1]
          IN  /\ url_a' = frame
              /\ url_b' = other
              /\ url_eq' = eq(frame, other)
              /\ url_hashes' = <<hash(frame, <<>>), hash(other, <<>>)>>
              /\ url_tag' = Id3v2Tag_insert_url(url_tag, frame)
    /\ UNCHANGED notUrlVars

NextUrl ==
    \/ UrlCompare
    \/ UrlInsert

SpecUrlFrame == InitUrl /\ [][NextUrl]_vars

---------------------------------------------------------------------------
(* ExtendedUrlFrame: as_bytes and parse *)

\* TextEncoding as u8
encoding_byte(encoding) ==
    CASE encoding = "Latin1" -> 0
      [] encoding = "UTF16" -> 1
      [] encoding = "UTF16BE" -> 2
      [] encoding = "UTF8" -> 3

\* TextEncoding::from_u8
TextEncoding_from_u8(byte) ==
    CASE byte = 0 -> Some("Latin1")
      [] byte = 1 -> Some("UTF16")
      [] byte = 2 -> Some("UTF16BE")
      [] byte = 3 -> Some("UTF8")
      [] OTHER -> None

\* verify_encoding: ID3v2.2 knows Latin1 and UTF16 only
verify_encoding(byte, version) ==
    IF version = "V2" /\ byte # 0 /\ byte # 1 THEN None
    ELSE TextEncoding_from_u8(byte)

\* the bytes of one character (a code point below 256) in an encoding
RECURSIVE encode_chars(_, _)
encode_chars(text, encoding) ==
    IF text = <<>> THEN <<>>
    ELSE LET c == Head(text)
             bytes == CASE encoding = "Latin1" -> <<c>>
                        [] encoding = "UTF8" ->
                              IF c < 128 THEN <<c>>
                              ELSE <<192 + (c \div 64), 128 + (c % 64)>>
                        [] encoding = "UTF16" -> <<c % 256, c \div 256>>
                        [] encoding = "UTF16BE" -> <<c \div 256, c % 256>>
         IN  bytes \o encode_chars(Tail(text), encoding)

\* encode_text(text, encoding, terminated): UTF16 is little endian behind
\* a byte order mark; the terminator is as wide as a code unit
encode_text(text, encoding, terminated) ==
    (IF encoding = "UTF16" THEN <<255, 254>> ELSE <<>>)
    \o encode_chars(text, encoding)
    \o (IF ~terminated THEN <<>>
        ELSE IF encoding \in {"UTF16", "UTF16BE"} THEN <<0, 0>> ELSE <<0>>)

\* the length of the bytes in front of the terminator, all of them if there
\* is none; `width` is the width of a code unit
RECURSIVE TerminatorAt(_, _, _)
TerminatorAt(bytes, p, width) ==
    IF p + width > Len(bytes) THEN Len(bytes)
    ELSE IF \A k \in 1 .. width : bytes[p + k] = 0 THEN p
    ELSE TerminatorAt(bytes, p + width, width)

RECURSIVE utf8_chars(_)
utf8_chars(bytes) ==
    IF bytes = <<>> THEN [ok |-> TRUE, text |-> <<>>]
    ELSE IF bytes[1] < 128
        THEN LET rest == utf8_chars(Tail(bytes))
             IN  [ok |-> rest.ok, text |-> <<bytes[1]>> \o rest.text]
    ELSE IF /\ bytes[1] \in 194 .. 195
            /\ Len(bytes) >= 2
            /\ bytes[2] \in 128 .. 191
        THEN LET rest == utf8_chars(SubSeq(bytes, 3, Len(bytes)))
             IN  [ok |-> rest.ok,
                  text |-> <<(bytes[1] - 192) * 64 + (bytes[2] - 128)>> \o rest.text]
    ELSE [ok |-> FALSE, text |-> <<>>]

RECURSIVE utf16_chars(_, _)
utf16_chars(bytes, big_endian) ==
    IF Len(bytes) < 2 THEN [ok |-> bytes = <<>>, text |-> <<>>]
    ELSE LET rest == utf16_chars(SubSeq(bytes, 3, Len(bytes)), big_endian)
             unit == IF big_endian THEN bytes[1] * 256 + bytes[2]
                     ELSE bytes[2] * 256 + bytes[1]
         IN  [ok |-> rest.ok, text |-> <<unit>> \o rest.text]

\* the characters of bytes in an encoding
decode_chars(bytes, encoding) ==
    CASE encoding = "Latin1" -> [ok |-> TRUE, text |-> bytes]
      [] encoding = "UTF8" -> utf8_chars(bytes)
      [] encoding = "UTF16BE" -> utf16_chars(bytes, TRUE)
      [] encoding = "UTF16" ->
            IF bytes = <<>> THEN [ok |-> TRUE, text |-> <<>>]
            ELSE IF Len(bytes) >= 2 /\ bytes[1] = 255 /\ bytes[2] = 254
                THEN utf16_chars(SubSeq(bytes, 3, Len(bytes)), FALSE)
            ELSE IF Len(bytes) >= 2 /\ bytes[1] = 254 /\ bytes[2] = 255
                THEN utf16_chars(SubSeq(bytes, 3, Len(bytes)), TRUE)
            ELSE [ok |-> FALSE, text |-> <<>>]

\* decode_text(reader, encoding, terminated): [ok, content, bytes_read]
decode_text(bytes, encoding, terminated) ==
    LET width == IF encoding \in {"UTF16", "UTF16BE"} THEN 2 ELSE 1
        n == IF terminated THEN TerminatorAt(bytes, 0, width) ELSE Len(bytes)
        read == IF terminated /\ n + width <= Len(bytes) THEN n + width ELSE Len(bytes)
        decoded == decode_chars(SubSeq(bytes, 1, n), encoding)
    IN  [ok |-> decoded.ok, content |-> decoded.text, bytes_read |-> read]

\* ExtendedUrlFrame::as_bytes
as_bytes(self) ==
    <<encoding_byte(self.encoding)>>
    \o encode_text(self.description, self.encoding, TRUE)
    \o encode_text(self.content, self.encoding, FALSE)

\* ExtendedUrlFrame::parse: Ok(None), Err, or Ok(Some(frame))
parse(reader, version) ==
    IF reader = <<>> THEN [kind |-> "None"]
    ELSE LET encoding == verify_encoding(reader[1], version)
             description == decode_text(Tail(reader), Unwrap(encoding), TRUE)
             content == decode_text(SubSeq(reader, 2 + description.bytes_read,
                                           Len(reader)),
                                    "Latin1", FALSE)
         IN  IF ~IsSome(encoding) THEN [kind |-> "Err"]
             ELSE IF ~description.ok \/ ~content.ok THEN [kind |-> "Err"]
             ELSE [kind |-> "Some",
                   frame |-> ExtendedUrlFrame(Unwrap(encoding), description.content,
                                              content.content)]

Id3v2Versions == {"V2", "V3", "V4"}
TextEncodings == {"Latin1", "UTF16", "UTF16BE", "UTF8"}
\* "", "a", and e acute, which is not ASCII
CodecTexts == { <<>>, <<97>>, <<233>>, <<97, 233>> }

CodecFrames ==
    { ExtendedUrlFrame(e, d, c) : e \in TextEncodings, d \in CodecTexts,
                                  c \in CodecTexts }

InitUrlCodec ==
    /\ cv_op = "input"
    /\ cv_in \in [frame : CodecFrames, version : Id3v2Versions]
    /\ cv_mid = <<>>
    /\ cv_out = <<>>
    /\ ApeTagIdle
    /\ ApeReadIdle
    /\ Id3Idle
    /\ FlacIdle
    /\ UrlIdle

\* frame.as_bytes()
UrlAsBytes ==
    /\ cv_op = "input"
    /\ cv_op' = "as_bytes"
    /\ cv_mid' = as_bytes(cv_in.frame)
    /\ UNCHANGED <<cv_in, cv_out>>
    /\ UNCHANGED notConvVars

\* ExtendedUrlFrame::parse(&mut &bytes[..], version)
UrlParse ==
    /\ cv_op = "as_bytes"
    /\ cv_op' = "parse"
    /\ cv_out' = parse(cv_mid, cv_in.version)
    /\ UNCHANGED <<cv_in, cv_mid>>
    /\ UNCHANGED notConvVars

NextUrlCodec ==
    \/ UrlAsBytes
    \/ UrlParse

SpecUrlCodec == InitUrlCodec /\ [][NextUrlCodec]_vars

---------------------------------------------------------------------------
(* split_tag: an ApeTag into a unified Tag *)

\* ItemKey::from_key(TagType::Ape, key), for the keys of the model
ItemKey_from_key(key) ==
    IF eq_ignore_ascii_case(key, KEY_TRACK) THEN "TrackNumber"
    ELSE IF eq_ignore_ascii_case(key, KEY_DISC) THEN "DiscNumber"
    ELSE IF eq_ignore_ascii_case(key, KEY_TITLE) THEN "TrackTitle"
    ELSE "Unknown"

\* the index of the first '/' of a text, 0 if it has none
RECURSIVE FirstSlash(_, _)
FirstSlash(content, i) ==
    IF i > Len(content) THEN 0
    ELSE IF <<content[i]>> = CH_SLASH THEN i
    ELSE FirstSlash(content, i + 1)

\* content.splitn(2, '/')
splitn2(content) ==
    LET i == FirstSlash(content, 1)
    IN  IF i = 0 THEN <<content>>
        ELSE <<SubSeq(content, 1, i - 1), SubSeq(content, i + 1, Len(content))>>

\* split_pair of split_tag: [some, items]
split_pair(content, tag_items, current_key, total_key) ==
    LET split == splitn2(content)
        with_current == Append(tag_items, TagItem(current_key, TextValue(split[1])))
    IN  [some |-> TRUE,
         items |-> IF Len(split) > 1
                   THEN Append(with_current, TagItem(total_key, TextValue(split[2])))
                   ELSE with_current]

\* the body of `for item in std::mem::take(&mut self.items)`
split_item(tag_items, item) ==
    LET item_key == ItemKey_from_key(item.key)
        pair(current_key, total_key) ==
            split_pair(item.value.data, tag_items, current_key, total_key)
        verbatim == Append(tag_items, TagItem(item_key, item.value))
    IN  IF item_key \in {"TrackNumber", "TrackTotal"} /\ item.value.kind = "Text"
        THEN IF pair("TrackNumber", "TrackTotal").some
             THEN pair("TrackNumber", "TrackTotal").items ELSE verbatim
        ELSE IF item_key \in {"DiscNumber", "DiscTotal"} /\ item.value.kind = "Text"
        THEN IF pair("DiscNumber", "DiscTotal").some
             THEN pair("DiscNumber", "DiscTotal").items ELSE verbatim
        ELSE IF item_key \in {"MovementNumber", "MovementTotal"}
                /\ item.value.kind = "Text"
        THEN IF pair("MovementNumber", "MovementTotal").some
             THEN pair("MovementNumber", "MovementTotal").items ELSE verbatim
        ELSE verbatim

RECURSIVE split_items(_, _)
split_items(tag_items, ape_items) ==
    IF ape_items = <<>> THEN tag_items
    ELSE split_items(split_item(tag_items, Head(ape_items)), Tail(ape_items))

\* SplitTag for ApeTag: the remainder, emptied, and the unified Tag
split_tag(self) ==
    [remainder |-> <<>>, tag |-> [items |-> split_items(<<>>, self), pictures |-> <<>>]]

\* the items of the tags split_tag is given: Track = "3/12", "3", "x/5", "3/x",
\* "abc", a binary Track, Disc = "1/2", DISC = "x/5", Title = "A"
SplitItems ==
    { ApeItem_text(KEY_TRACK, <<51, 47, 49, 50>>),
      ApeItem_text(KEY_TRACK, <<51>>),
      ApeItem_text(KEY_TRACK_UPPER, <<120, 47, 53>>),
      ApeItem_text(KEY_TRACK, <<51, 47, 120>>),
      ApeItem_text(KEY_TRACK, <<97, 98, 99>>),
      ApeItem(FALSE, KEY_TRACK, BinaryValue(<<1>>)),
      ApeItem_text(KEY_DISC, <<49, 47, 50>>),
      ApeItem_text(KEY_DISC_UPPER, <<120, 47, 53>>),
      ApeItem_text(KEY_TITLE, <<65>>) }

\* ApeTags: no two items have the same key, ignoring case
SplitTags ==
    { q \in SeqsUpTo(SplitItems, MaxSplit) :
        \A i, j \in 1 .. Len(q) :
            eq_ignore_ascii_case(q[i].key, q[j].key) => i = j }

InitSplitTag ==
    /\ cv_op = "input"
    /\ cv_in \in SplitTags
    /\ cv_mid = <<>>
    /\ cv_out = <<>>
    /\ ApeTagIdle
    /\ ApeReadIdle
    /\ Id3Idle
    /\ FlacIdle
    /\ UrlIdle

\* tag.split_tag()
SplitTag ==
    /\ cv_op = "input"
    /\ cv_op' = "split_tag"
    /\ cv_out' = split_tag(cv_in)
    /\ UNCHANGED <<cv_in, cv_mid>>
    /\ UNCHANGED notConvVars

\* the remainder merged with the unified Tag again
SplitThenMerge ==
    /\ cv_op = "split_tag"
    /\ cv_op' = "merge_tag"
    /\ cv_mid' = merge_tag(cv_out.remainder, cv_out.tag)
    /\ UNCHANGED <<cv_in, cv_out>>
    /\ UNCHANGED notConvVars

NextSplitTag ==
    \/ SplitTag
    \/ SplitThenMerge

SpecSplitTag == InitSplitTag /\ [][NextSplitTag]_vars

---------------------------------------------------------------------------
(* tagitems_into_ape: the items of a unified Tag as APE items *)

KEY_DISK == <<68, 105, 115, 107>>           \* "Disk"

\* NUMBER_PAIR_KEYS
NUMBER_PAIR_KEYS == {"TrackNumber", "TrackTotal", "DiscNumber", "DiscTotal"}

\* Tag::get_string: the text of the first item of a key
get_string(tag, item_key) ==
    LET found == SelectSeq(tag.items,
                           LAMBDA i : i.key = item_key /\ i.value.kind = "Text")
    IN  IF found = <<>> THEN None ELSE Some(found[1].value.data)

\* format_number_pair(number, total) for texts
format_number_pair_str(number, total) ==
    IF IsSome(number) /\ ~IsSome(total) THEN number
    ELSE IF ~IsSome(number) /\ IsSome(total)
        THEN Some(u32_to_string(DEFAULT_NUMBER_IN_PAIR) \o CH_SLASH \o Unwrap(total))
    ELSE IF IsSome(number) /\ IsSome(total)
        THEN Some(Unwrap(number) \o CH_SLASH \o Unwrap(total))
    ELSE None

\* create_apeitemref_for_number_pair: None, or the item of the pair
create_apeitemref_for_number_pair(number, total, key) ==
    LET value == format_number_pair_str(number, total)
    IN  IF IsSome(value) THEN <<ApeItem(FALSE, key, TextValue(Unwrap(value)))>>
        ELSE <<>>

\* the items that are no number pairs and have an APE key
RECURSIVE mapped_items(_)
mapped_items(tag_items) ==
    IF tag_items = <<>> THEN <<>>
    ELSE LET i == Head(tag_items)
             key == map_key(i.key)
         IN  (IF i.key \notin NUMBER_PAIR_KEYS /\ IsSome(key)
              THEN <<ApeItem(FALSE, Unwrap(key), i.value)>> ELSE <<>>)
             \o mapped_items(Tail(tag_items))

\* tagitems_into_ape
tagitems_into_ape(tag) ==
    mapped_items(tag.items)
    \o create_apeitemref_for_number_pair(get_string(tag, "TrackNumber"),
                                         get_string(tag, "TrackTotal"), KEY_TRACK)
    \o create_apeitemref_for_number_pair(get_string(tag, "DiscNumber"),
                                         get_string(tag, "DiscTotal"), KEY_DISK)

\* the ApeTag that holds the emitted items: each is inserted, as the reader
\* of the written tag does
RECURSIVE ApeTagOf(_, _)
ApeTagOf(tag, ape_items) ==
    IF ape_items = <<>> THEN tag
    ELSE ApeTagOf(insert(tag, Head(ape_items)), Tail(ape_items))

\* the items of the unified tags: TrackNumber "1", TrackTotal "2",
\* DiscNumber "3", DiscTotal "4", TrackTitle "A", DiscNumber "5"
EmittedItems ==
    { TagItem("TrackNumber", TextValue(<<49>>)),
      TagItem("TrackTotal", TextValue(<<50>>)),
      TagItem("DiscNumber", TextValue(<<51>>)),
      TagItem("DiscTotal", TextValue(<<52>>)),
      TagItem("TrackTitle", TextValue(<<65>>)),
      TagItem("DiscNumber", TextValue(<<53>>)) }

InitTagItemsIntoApe ==
    /\ cv_op = "input"
    /\ cv_in \in { [items |-> q, pictures |-> <<>>] : q \in SeqsUpTo(EmittedItems, MaxUnified) }
    /\ cv_mid = <<>>
    /\ cv_out = <<>>
    /\ ApeTagIdle
    /\ ApeReadIdle
    /\ Id3Idle
    /\ FlacIdle
    /\ UrlIdle

\* tagitems_into_ape(&tag)
TagItemsIntoApe ==
    /\ cv_op = "input"
    /\ cv_op' = "tagitems_into_ape"
    /\ cv_mid' = tagitems_into_ape(cv_in)
    /\ UNCHANGED <<cv_in, cv_out>>
    /\ UNCHANGED notConvVars

\* the resulting ApeTag, and what its accessors read
ReadBackPairs ==
    /\ cv_op = "tagitems_into_ape"
    /\ cv_op' = "read_back"
    /\ LET tag == ApeTagOf(<<>>, cv_mid)
       IN  cv_out' = [tag |-> tag,
                      track |-> track(tag), track_total |-> track_total(tag),
                      disk |-> disk(tag), disk_total |-> disk_total(tag)]
    /\ UNCHANGED <<cv_in, cv_mid>>
    /\ UNCHANGED notConvVars

NextTagItemsIntoApe ==
    \/ TagItemsIntoApe
    \/ ReadBackPairs

SpecTagItemsIntoApe == InitTagItemsIntoApe /\ [][NextTagItemsIntoApe]_vars

---------------------------------------------------------------------------
(* The ApeTag state machine *)

InitApeTag ==
    /\ items = <<>>
    /\ lastOp = "new"
    /\ ApeReadIdle
    /\ Id3Idle
    /\ FlacIdle
    /\ UrlIdle
    /\ ConvIdle

Insert ==
    \E it \in InsertItems :
        /\ lastOp' = "insert"
        /\ items' = insert(items, it)
        /\ UNCHANGED notApeTagVars

Remove ==
    \E k \in RemoveKeys :
        /\ lastOp' = "remove"
        /\ items' = remove(items, k)
        /\ UNCHANGED notApeTagVars

SetTrack(n) ==
    /\ lastOp' = "set_track"
    /\ items' = set_track(items, n)
    /\ UNCHANGED notApeTagVars

SetTrackTotal(n) ==
    /\ lastOp' = "set_track_total"
    /\ items' = set_track_total(items, n)
    /\ UNCHANGED notApeTagVars

RemoveTrack ==
    /\ lastOp' = "remove_track"
    /\ items' = remove_track(items)
    /\ UNCHANGED notApeTagVars

RemoveTrackTotal ==
    /\ lastOp' = "remove_track_total"
    /\ items' = remove_track_total(items)
    /\ UNCHANGED notApeTagVars

SetDisk(n) ==
    /\ lastOp' = "set_disk"
    /\ items' = set_disk(items, n)
    /\ UNCHANGED notApeTagVars

SetDiskTotal(n) ==
    /\ lastOp' = "set_disk_total"
    /\ items' = set_disk_total(items, n)
    /\ UNCHANGED notApeTagVars

RemoveDisk ==
    /\ lastOp' = "remove_disk"
    /\ items' = remove_disk(items)
    /\ UNCHANGED notApeTagVars

RemoveDiskTotal ==
    /\ lastOp' = "remove_disk_total"
    /\ items' = remove_disk_total(items)
    /\ UNCHANGED notApeTagVars

SetTitle ==
    \E t \in Titles :
        /\ lastOp' = "set_title"
        /\ items' = set_title(items, t)
        /\ UNCHANGED notApeTagVars

RemoveTitle ==
    /\ lastOp' = "remove_title"
    /\ items' = remove_title(items)
    /\ UNCHANGED notApeTagVars

\* the tag becomes the one read from a stream of item records
ReadTag ==
    \E t \in ReadTags :
        /\ lastOp' = "read_ape_tag"
        /\ items' = t
        /\ UNCHANGED notApeTagVars

MergeTag ==
    \E t \in UnifiedTags :
        /\ lastOp' = "merge_tag"
        /\ items' = merge_tag(items, t)
        /\ UNCHANGED notApeTagVars

NextApeTag ==
    \/ Insert
    \/ Remove
    \/ \E n \in Nums : SetTrack(n)
    \/ \E n \in Nums : SetTrackTotal(n)
    \/ RemoveTrack
    \/ RemoveTrackTotal
    \/ \E n \in Nums : SetDisk(n)
    \/ \E n \in Nums : SetDiskTotal(n)
    \/ RemoveDisk
    \/ RemoveDiskTotal
    \/ SetTitle
    \/ RemoveTitle
    \/ MergeTag
    \/ ReadTag

Spec == InitApeTag /\ [][NextApeTag]_vars

---------------------------------------------------------------------------
(* C1..C3: the ApeTag item list and its number pairs *)

\* no two items of the tag have keys that are equal ignoring case
NoDuplicateKeys(tag) ==
    \A i, j \in 1 .. Len(tag) :
        i # j => to_lower(tag[i].key) # to_lower(tag[j].key)

\* every item is the one `get` returns for its key in upper and in lower case
GetIgnoresCase(tag) ==
    \A i \in 1 .. Len(tag) :
        /\ get(tag, to_upper(tag[i].key)) = Some(tag[i])
        /\ get(tag, to_lower(tag[i].key)) = Some(tag[i])

\* an insert under a casing of a key the tag holds replaces that item
InsertReplaces ==
    \A it \in InsertItems :
        (/\ lastOp' = "insert"
         /\ items' = insert(items, it)
         /\ \E i \in 1 .. Len(items) : to_lower(items[i].key) = to_lower(it.key))
        => /\ Len(items') = Len(items)
           /\ get(items', to_upper(it.key)) = Some(it)
           /\ get(items', to_lower(it.key)) = Some(it)

\* C1: in every tag reached by insert, remove, the accessors, a read and
\* merge_tag no two items have keys equal ignoring case, get by the upper-
\* or lower-cased key returns the one item of that key, and an insert under
\* any casing of an existing key replaces the item and leaves len unchanged.
C1_CaseInsensitiveKeyIdentity ==
    /\ [](NoDuplicateKeys(items) /\ GetIgnoresCase(items))
    /\ [][InsertReplaces]_vars

\* an insert has replaced TRACK = "x/5" over another casing of the key,
\* next to a second item; the item is found under "track"
C1_Witness ==
    /\ lastOp = "insert"
    /\ Len(items) >= 2
    /\ \E i \in 1 .. Len(items) :
        /\ items[i].key = KEY_TRACK_UPPER
        /\ get(items, KEY_TRACK_LOWER) = Some(items[i])

\* the items of the tag under other keys than `key`, in order
ItemsExcept(tag, key) ==
    SelectSeq(tag, LAMBDA it : to_lower(it.key) # to_lower(key))

HasItem(tag, key) == \E i \in 1 .. Len(tag) : to_lower(tag[i].key) = to_lower(key)

\* set_track and set_track_total write their own component only
TrackSetters ==
    \A n \in Nums :
        /\ SetTrack(n) =>
              /\ track(items') = Some(n)
              /\ track_total(items') = track_total(items)
              /\ ~HasItem(items, KEY_TRACK) => track_total(items') = None
        /\ SetTrackTotal(n) =>
              /\ track_total(items') = Some(n)
              /\ IsSome(track(items)) => track(items') = track(items)
              /\ ~HasItem(items, KEY_TRACK) =>
                     track(items') = Some(DEFAULT_NUMBER_IN_PAIR)

\* set_disk and set_disk_total write their own component only
DiskSetters ==
    \A n \in Nums :
        /\ SetDisk(n) =>
              /\ disk(items') = Some(n)
              /\ disk_total(items') = disk_total(items)
              /\ ~HasItem(items, KEY_DISC) => disk_total(items') = None
        /\ SetDiskTotal(n) =>
              /\ disk_total(items') = Some(n)
              /\ IsSome(disk(items)) => disk(items') = disk(items)
              /\ ~HasItem(items, KEY_DISC) =>
                     disk(items') = Some(DEFAULT_NUMBER_IN_PAIR)

\* C2: set_track(n) makes track() Some(n) and leaves track_total() as it
\* was (None on a tag with no Track item); set_track_total(t) makes
\* track_total() Some(t) and leaves a track() that is present as it was (on
\* a tag with no Track item track() becomes the default number). Hence both
\* are readable after the two setters in either order. The same holds for
\* set_disk / set_disk_total with disk() / disk_total().
C2_NumberPairSetters == [][TrackSetters /\ DiskSetters]_vars

\* set_track_total has completed a pair whose number was set before
C2_Witness ==
    /\ lastOp = "set_track_total"
    /\ track(items) = Some(BigNum)
    /\ track_total(items) = Some(7)
    /\ disk(items) = Some(7)
    /\ disk_total(items) = Some(BigNum)

\* C3: remove_track_total() keeps a track number that was set: if track()
\* was Some(n), afterwards track() is Some(n) and track_total() is None; if
\* track() was None there is no Track item afterwards; the items under other
\* keys are unchanged.
C3_RemoveTrackTotal ==
    [][RemoveTrackTotal =>
          /\ ItemsExcept(items', KEY_TRACK) = ItemsExcept(items, KEY_TRACK)
          /\ track_total(items') = None
          /\ IsSome(track(items)) => track(items') = track(items)
          /\ ~IsSome(track(items)) => ~HasItem(items', KEY_TRACK)]_vars

\* remove_track_total has acted on a tag with a track number and a Disc item
C3_Witness ==
    /\ lastOp = "remove_track_total"
    /\ track(items) = Some(BigNum)
    /\ track_total(items) = None
    /\ HasItem(items, KEY_DISC)

---------------------------------------------------------------------------
(* C4, C5: records the APE reader rejects *)

\* the item a well-formed record stands for
ItemOfRecord(r) ==
    LET item_type == (r.flags \div 2) % 4
    IN  ApeItem((r.flags % 2) = 1, r.key,
                [kind |-> IF item_type = 0 THEN "Text"
                          ELSE IF item_type = 1 THEN "Binary" ELSE "Locator",
                 data |-> r.value])

\* the tag of the well-formed records among rs, inserted in stream order
RECURSIVE TagOfGoodRecords(_, _)
TagOfGoodRecords(tag, rs) ==
    IF rs = <<>> THEN tag
    ELSE TagOfGoodRecords(
             IF Head(rs) \in GoodRecords
             THEN Append(ItemsExcept(tag, Head(rs).key), ItemOfRecord(Head(rs)))
             ELSE tag,
             Tail(rs))

HeaderDeclaresStream ==
    rd_header = [size |-> DeclaredSize(rd_records), item_count |-> Len(rd_records)]

RecordsAmong(S) == \A i \in 1 .. Len(rd_records) : rd_records[i] \in S

BadKeyLengthRecords == ShortKeyRecords \cup LongKeyRecords

\* C4 as claimed: a record whose key has an invalid length is skipped whole,
\* without an error, and the tag returned holds exactly the items of the
\* well-formed records of the stream.
C4_KeyLengthRejectionSkipsRecord ==
    (/\ rd_result # "running"
     /\ HeaderDeclaresStream
     /\ RecordsAmong(GoodRecords \cup BadKeyLengthRecords))
    => /\ rd_result = "Ok"
       /\ rd_tag = TagOfGoodRecords(<<>>, rd_records)

\* C5 as claimed: a record with a reserved key is skipped, no error is
\* returned and the tag returned holds the other valid items.
C5_ReservedKeySkipsItem ==
    (/\ rd_result # "running"
     /\ HeaderDeclaresStream
     /\ RecordsAmong(GoodRecords \cup ReservedKeyRecords))
    => /\ rd_result = "Ok"
       /\ rd_tag = TagOfGoodRecords(<<>>, rd_records)

\* the first record of the stream that is not well-formed has a reserved key
ReservedKeyIsMet ==
    \E j \in 1 .. Len(rd_records) :
        /\ rd_records[j] \in ReservedKeyRecords
        /\ \A i \in 1 .. j - 1 : rd_records[i] \in GoodRecords

\* C5, amended: a record whose key equals a reserved key ignoring case makes
\* read_ape_tag_with_header return a decode error ("illegal key"); no tag is
\* returned, so the valid items read before it are not returned either.
C5_ReservedKeyIsDecodeError ==
    (/\ rd_result # "running"
     /\ HeaderDeclaresStream
     /\ ReservedKeyIsMet)
    => rd_result = "Decode: illegal key"

\* the reader has stopped at a reserved key after it had inserted an item
C5_Witness ==
    /\ rd_result = "Decode: illegal key"
    /\ HeaderDeclaresStream
    /\ ReservedKeyIsMet
    /\ Len(rd_tag) >= 1

---------------------------------------------------------------------------
(* C6: a frame with an illegal identifier, Strict against Relaxed *)

\* the tag of the well-formed frames among fs, inserted in stream order
RECURSIVE TagOfGoodFrames(_, _)
TagOfGoodFrames(tag, fs) ==
    IF fs = <<>> THEN tag
    ELSE TagOfGoodFrames(
             IF Head(fs) \in GoodFrames
             THEN Append(SelectSeq(tag, LAMBDA f : f.id # Head(fs).id), Head(fs))
             ELSE tag,
             Tail(fs))

\* the header declares the whole body: no frame is cut
BodyHoldsFrames ==
    id3_header.size - id3_header.extended_size
        = Len(id3_bytes) - 2

HasBadIdFrame == \E i \in 1 .. Len(id3_frames) : id3_frames[i] \in BadIdFrames

\* C6: for a tag body that holds well-formed frames and a frame with an
\* illegal identifier, parse_id3v2 in Strict mode returns an error and no
\* tag; in Relaxed mode it returns a tag that holds exactly the well-formed
\* frames, those before and those behind the bad frame, the bad frame being
\* skipped by its declared length.
C6_StrictRelaxedDivergence ==
    (/\ id3_result \notin {"frames", "drain"}
     /\ BodyHoldsFrames
     /\ HasBadIdFrame)
    => /\ id3_mode = "Strict" => id3_result = "BadFrameId"
       /\ id3_mode = "Relaxed" =>
             /\ id3_result = "Ok"
             /\ id3_tag = TagOfGoodFrames(<<>>, id3_frames)

\* Relaxed parsing has returned a tag of two frames, one from before and one
\* from behind a skipped frame
C6_Witness ==
    /\ id3_result = "Ok"
    /\ id3_mode = "Relaxed"
    /\ BodyHoldsFrames
    /\ Len(id3_frames) = 3
    /\ id3_frames[2] \in BadIdFrames
    /\ Len(id3_tag) = 2

---------------------------------------------------------------------------
(* Claims C7, C8, C9: flac::read_from *)

\* read_from has returned
FlacDone == fl_pc = "done"

\* the stream begins with the marker, behind any leading ID3v2 tag
HasMarker == fl_stream.marker = MARKER_FLAC

\* the block behind the marker is STREAMINFO
HasStreamInfo ==
    /\ fl_stream.blocks # <<>>
    /\ fl_stream.blocks[1].ty = BLOCK_ID_STREAMINFO

Chain == Tail(fl_stream.blocks)

\* the beginning of the stream is accepted: any leading ID3v2 tag parses, the
\* marker and an 18 byte STREAMINFO follow, and STREAMINFO is not the last block
HeadAccepted ==
    /\ HasMarker
    /\ HasStreamInfo
    /\ Len(fl_stream.blocks[1].content) >= 18
    /\ ~fl_stream.blocks[1].last
    /\ IsSome(fl_stream.id3) =>
          parse_id3v2(Unwrap(fl_stream.id3).content, Unwrap(fl_stream.id3).header,
                      fl_options.parsing_mode).result = "Ok"

IsVorbis(b) == b.ty = BLOCK_ID_VORBIS_COMMENTS
IsPicture(b) == b.ty = BLOCK_ID_PICTURE
Undecodable(b) == b.content # <<>> /\ b.content[1] = 255
ZeroSized(b) ==
    b.content = <<>> /\ b.ty \notin {BLOCK_ID_PADDING, BLOCK_ID_SEEKTABLE}

\* a block that ends the walk for a reason other than a second Vorbis block
\* or a picture
OtherFault(b) == ZeroSized(b) \/ (IsVorbis(b) /\ Undecodable(b))

\* the chain is walked through block j: no earlier block is marked last or
\* ends the walk
WalkedTo(j) ==
    /\ j \in 1 .. Len(Chain)
    /\ \A k \in 1 .. j - 1 :
          /\ ~Chain[k].last
          /\ ~OtherFault(Chain[k])
          /\ fl_options.parsing_mode = "Strict" =>
                ~(IsPicture(Chain[k]) /\ Undecodable(Chain[k]))

\* the chain ends in a block marked last and, pictures aside, all of it reads
ChainReads ==
    /\ Chain # <<>>
    /\ \A k \in 1 .. Len(Chain) :
          /\ Chain[k].last <=> k = Len(Chain)
          /\ ~OtherFault(Chain[k])

\* the properties are not asked for, or read
PropertiesRead ==
    fl_options.read_properties => read_properties(fl_stream.blocks[1].content).ok

VorbisIndices == { k \in 1 .. Len(Chain) : IsVorbis(Chain[k]) }
Max(S) == CHOOSE x \in S : \A y \in S : y <= x

\* the tag of the last Vorbis Comments block of the chain
LastVorbisTag ==
    IF VorbisIndices = {} THEN None
    ELSE Some(read_comments(Chain[Max(VorbisIndices)].content).tag)

\* C8: a second Vorbis Comments block is a decode error in Strict mode; in
\* Relaxed mode read_from succeeds and keeps the tag of the last Vorbis
\* Comments block, wherever these blocks stand in the chain
C8_DuplicateVorbisComments ==
    (FlacDone /\ HeadAccepted) =>
       /\ (/\ fl_options.parsing_mode = "Strict"
           /\ \E i, j \in VorbisIndices :
                 /\ i < j
                 /\ WalkedTo(j)
                 /\ \A k \in VorbisIndices : k < j => k = i)
          => fl_result = "Decode: more than one Vorbis Comments block"
       /\ (/\ fl_options.parsing_mode = "Relaxed"
           /\ Cardinality(VorbisIndices) >= 2
           /\ ChainReads
           /\ PropertiesRead)
          => /\ fl_result = "Ok"
             /\ fl_file.vorbis_comments_tag = LastVorbisTag

C8_Witness ==
    /\ FlacDone
    /\ HeadAccepted
    /\ fl_options.parsing_mode = "Relaxed"
    /\ ChainReads
    /\ Len(Chain) = 3
    /\ IsVorbis(Chain[1]) /\ IsPicture(Chain[2]) /\ IsVorbis(Chain[3])
    /\ Chain[1].content # Chain[3].content
    /\ fl_result = "Ok"
    /\ fl_file.vorbis_comments_tag = Some(Chain[3].content)

\* the pictures of the blocks of a chain that decode, in the order of the chain
RECURSIVE DecodedPictures(_)
DecodedPictures(chain) ==
    IF chain = <<>> THEN <<>>
    ELSE (IF IsPicture(Head(chain)) /\ from_flac_bytes(Head(chain).content).ok
          THEN <<from_flac_bytes(Head(chain).content).picture>> ELSE <<>>)
         \o DecodedPictures(Tail(chain))

HasBadPicture == \E k \in 1 .. Len(Chain) : IsPicture(Chain[k]) /\ Undecodable(Chain[k])

\* C9: a Picture block that does not decode is the returned error in Strict
\* mode; in Relaxed mode it is dropped, the walk goes on to the last block, and
\* the FlacFile holds the decoded pictures in stream order and the Vorbis
\* Comments tag read from the other blocks
C9_PictureDecodeFailure ==
    (FlacDone /\ HeadAccepted) =>
       /\ (/\ fl_options.parsing_mode = "Strict"
           /\ \E j \in 1 .. Len(Chain) :
                 /\ IsPicture(Chain[j]) /\ Undecodable(Chain[j])
                 /\ WalkedTo(j)
                 /\ Cardinality({ k \in VorbisIndices : k < j }) <= 1)
          => fl_result = "Picture"
       /\ (/\ fl_options.parsing_mode = "Relaxed"
           /\ HasBadPicture
           /\ ChainReads
           /\ PropertiesRead)
          => /\ fl_result = "Ok"
             /\ fl_read = Len(fl_stream.blocks)
             /\ fl_file.pictures = DecodedPictures(Chain)
             /\ fl_file.vorbis_comments_tag = LastVorbisTag

C9_Witness ==
    /\ FlacDone
    /\ HeadAccepted
    /\ fl_options.parsing_mode = "Relaxed"
    /\ ChainReads
    /\ Len(Chain) = 3
    /\ IsPicture(Chain[1]) /\ Undecodable(Chain[1])
    /\ IsVorbis(Chain[2])
    /\ IsPicture(Chain[3]) /\ ~Undecodable(Chain[3])
    /\ fl_result = "Ok"
    /\ fl_file.pictures = <<Chain[3].content>>
    /\ fl_file.vorbis_comments_tag = Some(Chain[2].content)

---------------------------------------------------------------------------
(* Claim C10: ExtendedUrlFrame *)

\* a == b exactly when the descriptions are the same
EqIsSameDescription == url_eq <=> url_a.description = url_b.description

\* a == b implies hash(a) == hash(b)
EqImpliesSameHash == url_eq => url_hashes[1] = url_hashes[2]

\* the tag holds at most one frame per description
OneFramePerDescription ==
    \A i, j \in 1 .. Len(url_tag) :
        url_tag[i].description = url_tag[j].description => i = j

\* an insert under a description the tag holds replaces that frame
UrlInsertReplaces ==
    (/\ url_op' = "insert"
     /\ \E i \in 1 .. Len(url_tag) : url_tag[i].description = url_a'.description)
    => /\ Len(url_tag') = Len(url_tag)
       /\ \E i \in 1 .. Len(url_tag') : url_tag'[i] = url_a'
       /\ \A i \in 1 .. Len(url_tag') :
             url_tag'[i].description = url_a'.description => url_tag'[i] = url_a'

\* C10: two ExtendedUrlFrames are equal exactly when their descriptions are,
\* whatever their content and encoding, equal frames hash alike, a tag holds at
\* most one frame per description, and an insert under a description the tag
\* holds replaces the earlier frame
C10_ExtendedUrlFrameIdentity ==
    /\ [](EqIsSameDescription /\ EqImpliesSameHash)
    /\ []OneFramePerDescription
    /\ [][UrlInsertReplaces]_vars

C10_Witness ==
    /\ url_op = "insert"
    /\ url_eq
    /\ url_a.description = url_b.description
    /\ url_a.content # url_b.content
    /\ url_a.encoding # url_b.encoding
    /\ url_hashes[1] = url_hashes[2]
    /\ Len(url_tag) = 2
    /\ url_tag[2] = url_a
    /\ url_tag[1].description # url_a.description
    /\ \A i \in 1 .. Len(url_tag) : url_tag[i] # url_b

---------------------------------------------------------------------------
(* Claim C11: ExtendedUrlFrame round trip *)

\* the encoding is one the version allows
EncodingValid(frame, version) ==
    IsSome(verify_encoding(encoding_byte(frame.encoding), version))

\* C11: as_bytes emits the encoding byte, the terminated description in the
\* frame's encoding and the content as Latin-1 bytes, and parse gives back a
\* frame of the same encoding, description and content
C11_UrlFrameRoundTrip ==
    EncodingValid(cv_in.frame, cv_in.version) =>
       /\ cv_op \in {"as_bytes", "parse"} =>
             cv_mid = <<encoding_byte(cv_in.frame.encoding)>>
                      \o encode_text(cv_in.frame.description, cv_in.frame.encoding, TRUE)
                      \o cv_in.frame.content
       /\ cv_op = "parse" =>
             /\ cv_out.kind = "Some"
             /\ cv_out.frame = cv_in.frame

\* the round trip does hold for frames of the Latin1 encoding
Latin1RoundTrip ==
    (cv_op = "parse" /\ cv_in.frame.encoding = "Latin1") =>
       /\ cv_out.kind = "Some"
       /\ cv_out.frame = cv_in.frame

---------------------------------------------------------------------------
(* Claim C12: split_tag and number pairs *)

\* the unified items of a key, in order
UnifiedOf(tag, key) == SelectSeq(tag.items, LAMBDA i : i.key = key)

\* the Track text items of the ApeTag split
TrackTexts ==
    { cv_in[i].value.data : i \in { k \in 1 .. Len(cv_in) :
          /\ ItemKey_from_key(cv_in[k].key) = "TrackNumber"
          /\ cv_in[k].value.kind = "Text" } }

\* C12: a number-pair text whose current component parses is split into a
\* current and a total item; a text that does not parse is passed through
\* whole as one item under the current key, without a total item
C12_SplitTagNumberPairs ==
    cv_op = "split_tag" =>
       \A text \in TrackTexts :
          LET split == splitn2(text)
          IN  IF IsSome(parse_u32(split[1]))
              THEN /\ UnifiedOf(cv_out.tag, "TrackNumber")
                         = <<TagItem("TrackNumber", TextValue(split[1]))>>
                   /\ Len(split) > 1 =>
                         UnifiedOf(cv_out.tag, "TrackTotal")
                            = <<TagItem("TrackTotal", TextValue(split[2]))>>
              ELSE /\ UnifiedOf(cv_out.tag, "TrackNumber")
                         = <<TagItem("TrackNumber", TextValue(text))>>
                   /\ UnifiedOf(cv_out.tag, "TrackTotal") = <<>>

---------------------------------------------------------------------------
(* Claim C13: parse_id3v2 and the declared size of the tag *)

\* header.size - header.extended_size
DeclaredBody == id3_header.size - id3_header.extended_size

\* the bytes of the input that belong to the tag body
BodyBound == IF DeclaredBody <= Len(id3_bytes) THEN DeclaredBody ELSE Len(id3_bytes)

\* the raw bytes a reader has taken to give out n bytes, with 0xFF 0x00
\* read as 0xFF when the tag is unsynchronised
RECURSIVE RawBytesFor(_, _, _)
RawBytesFor(raw, n, unsync) ==
    IF n = 0 \/ raw = <<>> THEN 0
    ELSE IF unsync /\ Len(raw) >= 2 /\ raw[1] = 255 /\ raw[2] = 0
        THEN 2 + RawBytesFor(SubSeq(raw, 3, Len(raw)), n - 1, unsync)
    ELSE 1 + RawBytesFor(Tail(raw), n - 1, unsync)

\* the bytes of the input the frame reads and skips have consumed
FramesConsumed == RawBytesFor(id3_bytes, id3_pos, id3_header.unsynchronisation)

\* C13: when parse_id3v2 returns a tag the input has been advanced by
\* exactly header.size - header.extended_size bytes, or to its end if it is
\* shorter, with and without unsynchronisation; the frame reads and skips
\* never consume a byte beyond that
C13_ConsumesDeclaredBody ==
    /\ id3_result = "Ok" => id3_consumed = BodyBound
    /\ FramesConsumed <= BodyBound

C13_Witness ==
    /\ id3_result = "Ok"
    /\ id3_mode = "Relaxed"
    /\ id3_header.unsynchronisation
    /\ id3_header.extended_size > 0
    /\ HasBadIdFrame
    /\ \E i \in 1 .. Len(id3_frames) : id3_frames[i].content[1] = 255
    /\ id3_tag # <<>>
    /\ FramesConsumed < id3_consumed
    /\ id3_consumed = DeclaredBody
    /\ id3_consumed < Len(id3_bytes)

\* the input is shorter than the header declares and is read to its end
C13_WitnessShortInput ==
    /\ id3_result = "Ok"
    /\ DeclaredBody > Len(id3_bytes)
    /\ id3_consumed = Len(id3_bytes)
    /\ id3_tag # <<>>

---------------------------------------------------------------------------
(* Claim C14: the size accounting of read_ape_tag_with_header *)

\* the bytes of the declared tag that are not consumed yet
TagLeft == rd_header.size - rd_pos

\* a record is read only while 11 bytes of the tag are left, and one whose
\* value size exceeds what is left is rejected; stated for streams of
\* well-formed records, which are consumed whole
ReadsWithinTag ==
    (RecordsAmong(GoodRecords) /\ ReadItem) =>
       /\ TagLeft >= 11
       /\ (~read_u32_high(rd_data, rd_pos) /\ read_u32_low(rd_data, rd_pos) > TagLeft)
             => rd_result' = "SizeMismatch"

\* C14: the remaining size is the declared size minus every byte consumed,
\* so a record whose value size exceeds the rest of the tag is a
\* SizeMismatch, the loop stops when fewer than 11 bytes of the tag are left,
\* and no item value is read beyond the declared size
C14_SizeAccounting ==
    /\ []((rd_result = "running" /\ RecordsAmong(GoodRecords)) => rd_pos <= rd_header.size)
    /\ [][ReadsWithinTag]_vars

---------------------------------------------------------------------------
(* Claim C15: reading a number pair *)

\* the pair read from the text item of a key is the number in front of the
\* first '/' and the number behind it, each None when it is not a number
ReadsPairAtFirstSlash(tag, key, number, total) ==
    LET item == get(tag, key)
        split == splitn2(Unwrap(item).value.data)
    IN  (IsSome(item) /\ Unwrap(item).value.kind = "Text") =>
           /\ number = parse_u32(split[1])
           /\ total = IF Len(split) > 1 THEN parse_u32(split[2]) ELSE None

\* C15: track() is the number parsed from the text in front of the first '/'
\* of the Track item and track_total() the number parsed from the text behind
\* it, None when that text is not a number; the same for disk() and
\* disk_total()
C15_PairSplitsAtFirstSlash ==
    /\ ReadsPairAtFirstSlash(items, KEY_TRACK, track(items), track_total(items))
    /\ ReadsPairAtFirstSlash(items, KEY_DISC, disk(items), disk_total(items))

---------------------------------------------------------------------------
(* Claim C16: the key of the disc pair *)

\* the number a text of the unified tag stands for
NumberOf(text) == IF IsSome(text) THEN parse_u32(Unwrap(text)) ELSE None

\* C16: the disc pair tagitems_into_ape emits is stored under the key that
\* disk() and disk_total() read, so the accessors of the resulting ApeTag
\* give back the disc number and total of the unified Tag
C16_DiskKeyConsistency ==
    (cv_op = "read_back" /\ IsSome(get_string(cv_in, "DiscNumber"))) =>
       /\ cv_out.disk = NumberOf(get_string(cv_in, "DiscNumber"))
       /\ cv_out.disk_total = NumberOf(get_string(cv_in, "DiscTotal"))

\* the track pair, whose key is "Track" on both sides, is read back
TrackPairReadBack ==
    (cv_op = "read_back" /\ IsSome(get_string(cv_in, "TrackNumber"))) =>
       /\ cv_out.track = NumberOf(get_string(cv_in, "TrackNumber"))
       /\ cv_out.track_total = NumberOf(get_string(cv_in, "TrackTotal"))

---------------------------------------------------------------------------
(* Claim C17: remove_disk_total keeps the disc number *)

\* C17: remove_disk_total() removes only the disc total: if disk() was
\* Some(d), afterwards disk() is Some(d) and disk_total() is None, whatever
\* the Track item holds, and the items under other keys are unchanged
C17_RemoveDiskTotalKeepsDisk ==
    [][(RemoveDiskTotal /\ IsSome(disk(items))) =>
          /\ disk(items') = disk(items)
          /\ disk_total(items') = None
          /\ ItemsExcept(items', KEY_DISC) = ItemsExcept(items, KEY_DISC)]_vars

\* what remove_disk_total does leave alone: the items under other keys
RemoveDiskTotalFrame ==
    [][RemoveDiskTotal =>
          ItemsExcept(items', KEY_DISC) = ItemsExcept(items, KEY_DISC)]_vars

====
